---- MODULE Spec2Model ----
(***************************************************************************)
(* Vertical-fall landing simulations of flight_sim: the integrators, the   *)
(* event detector and interpolator of common.c, the hoverslam program      *)
(* (golden-section search over the ignition time, then the committed run)  *)
(* of hoverslam.c and the PID program (Twiddle tuning of the gains, then   *)
(* the committed run) of pid.c.                                            *)
(*                                                                         *)
(* Numbers.  A C double is modelled as a fixed-point integer: the integer  *)
(* v stands for v / Scale, products and quotients are rounded to the       *)
(* nearest representable value as IEEE arithmetic does; the gains and      *)
(* steps of the tuner are also rounded to Significand binary digits, as    *)
(* the sums of doubles are.  INFINITY and NaN                              *)
(* are two integers outside the range of every finite value, with the IEEE *)
(* rules for the operations the programs apply to them.  Units are chosen  *)
(* so that G * 1e24 = 1 and the planet radius is in metres.                *)
(*                                                                         *)
(* Spec is the two programs, FairSpec the two programs running on without  *)
(* interruption.  Both main() functions install                            *)
(* update_status_rk4; the configuration also selects the other two         *)
(* integrators of common.c, which a scene may install in its place.        *)
(* EventSpec applies the event detector and the interpolator to enumerated *)
(* pairs of states, SearchSpec adds the loop body of the golden-section    *)
(* search on enumerated brackets and objective values to the programs.     *)
(* UnimodalSpec runs the search, and QuadSpec the Twiddle tuner, on a       *)
(* synthetic cost in the place of a flight.  CoastSpec applies the         *)
(* integrators to a coasting rocket with a force model that returns zero,  *)
(* BurnSpec applies them to a powered rocket with the forces of the       *)
(* rocket, ParseSpec runs main of pid.c on enumerated rocket files,        *)
(* LimitSpec on files that reach the limits of fparser.h, AgreeSpec runs   *)
(* a probe and the committed loop of hoverslam.c with one ignition time,   *)
(* LoggerSpec is a caller of logger.c making any sequence of calls.        *)
(***************************************************************************)
EXTENDS Integers, Sequences, FiniteSets, TLC

\* ------------------------------------------------------------------------
\* Bounds of the model
\* ------------------------------------------------------------------------
Scale == 1000
MaxSweeps == 2
MaxTime == 40
MaxQuadSweeps == 300
CoastSteps == 3
Significand == 10
MaxTail == 2
MaxRows == 3

\* ------------------------------------------------------------------------
\* Fixed-point arithmetic
\* ------------------------------------------------------------------------
INFINITY == 2000000000
NaN == 0 - 2000000001

Abs(a) == IF a < 0 THEN 0 - a ELSE a

\* |n| / |d| for integers, rounded to the nearest integer (d # 0)
RoundMagnitude(nn, dd) == (nn + dd \div 2) \div dd

\* F(x), with x computed once, before F is applied to it
With(x, F(_)) == CHOOSE out \in {F(v) : v \in {x}} : TRUE

\* n / d for integers, rounded to the nearest integer, symmetrically in the
\* sign as IEEE rounding is (d # 0)
RoundSigned[n \in Int, d \in Int] ==
    IF (n < 0) = (d < 0)
    THEN RoundMagnitude(Abs(n), Abs(d))
    ELSE 0 - RoundMagnitude(Abs(n), Abs(d))

\* the quotient of two expressions, each computed once
RoundDiv(n, d) == RoundSigned[n, d]

FMul(a, b) == RoundDiv(a * b, Scale)
FDiv(a, b) == RoundDiv(a * Scale, b)
Num(k) == k * Scale

\* the unit in the last place of a double of magnitude a: the doubles keep
\* Significand binary digits, whatever their size
RECURSIVE Ulp(_, _)
Ulp(a, u) == IF a < u * 2^Significand THEN u ELSE Ulp(a, 2 * u)

\* the magnitude a rounded to a multiple of u, a tie going to the even one
RoundToEven(a, u) ==
    IF 2 * (a % u) > u \/ (2 * (a % u) = u /\ (a \div u) % 2 = 1)
    THEN (a \div u + 1) * u
    ELSE (a \div u) * u

\* the double nearest to the real number x
Stored(x) ==
    IF x < 0 THEN 0 - RoundToEven(0 - x, Ulp(0 - x, 1))
             ELSE RoundToEven(x, Ulp(x, 1))

\* a + b and a - b on doubles: the exact result, rounded to a double
FAdd(a, b) == Stored(a + b)
FSub(a, b) == Stored(a - b)

MAX(a, b) == IF a > b THEN a ELSE b
MIN(a, b) == IF a < b THEN a ELSE b

\* fabs, also of the sentinels
fabs(a) == IF a = NaN THEN NaN ELSE Abs(a)

\* variant for C7: the comparison reversed
FGreater(a, b) == a # NaN /\ b # NaN /\ a > b

\* a < b on doubles: false as soon as one side is NaN
FLess(a, b) == a # NaN /\ b # NaN /\ a < b

\* a * b where b may be +infinity or NaN; a is finite
XMul(a, b) ==
    IF b = NaN THEN NaN
    ELSE IF b = INFINITY THEN (IF a = 0 THEN NaN ELSE IF a > 0 THEN INFINITY ELSE 0 - INFINITY)
    ELSE FMul(a, b)

\* a + b where a or b may be +infinity or NaN
XAdd(a, b) ==
    IF a = NaN \/ b = NaN THEN NaN
    ELSE IF a = INFINITY \/ b = INFINITY THEN INFINITY
    ELSE a + b

SqrtSearch[n \in Nat, lo \in Nat, hi \in Nat] ==
    IF hi - lo <= 1 THEN lo
    ELSE IF ((lo + hi) \div 2) * ((lo + hi) \div 2) <= n
         THEN SqrtSearch[n, (lo + hi) \div 2, hi]
         ELSE SqrtSearch[n, lo, (lo + hi) \div 2]

\* sqrt of a non-negative fixed-point value
sqrt(a) == SqrtSearch[a * Scale, 0, 46340]

\* y + y^3/3 + y^5/5 + y^7/7 + y^9/9, with y2 = y * y
AtanhSeries(y, y2) ==
    y + RoundDiv(FMul(y, y2), 3)
      + RoundDiv(FMul(FMul(y, y2), y2), 5)
      + RoundDiv(FMul(FMul(FMul(y, y2), y2), y2), 7)
      + RoundDiv(FMul(FMul(FMul(FMul(y, y2), y2), y2), y2), 9)

Atanh(y) == AtanhSeries(y, FMul(y, y))

\* natural logarithm of a fixed-point value >= 1: 2 * atanh((a-1)/(a+1))
log(a) == 2 * Atanh(FDiv(a - Scale, a + Scale))

\* ------------------------------------------------------------------------
\* Vectors and rockets
\* ------------------------------------------------------------------------
Vec(x, y, z) == [x |-> x, y |-> y, z |-> z]
VEC3_ZERO == Vec(0, 0, 0)
M_PI_2 == (1571 * Scale) \div 1000
UP == Vec(0, 0, M_PI_2)

\* v + k * s, componentwise
VAxpy(v, k, s) == Vec(v.x + FMul(k.x, s), v.y + FMul(k.y, s), v.z + FMul(k.z, s))

\* variant for C15: the two middle derivatives are not counted twice
VCombUnweighted(a1, a2, a3, a4) ==
    Vec(a1.x + a2.x + a3.x + a4.x, a1.y + a2.y + a3.y + a4.y, a1.z + a2.z + a3.z + a4.z)

\* a1 + 2 a2 + 2 a3 + a4, componentwise
VComb(a1, a2, a3, a4) ==
    Vec(a1.x + FMul(Num(2), a2.x) + FMul(Num(2), a3.x) + a4.x,
        a1.y + FMul(Num(2), a2.y) + FMul(Num(2), a3.y) + a4.y,
        a1.z + FMul(Num(2), a2.z) + FMul(Num(2), a3.z) + a4.z)

FULL_MASS(r) == r.dry_mass + r.fuel_mass
CURRENT_THRUST(r) == FMul(r.engine.thrust, r.thrust_percent)
CHANGE_THRUST(r, t) == [r EXCEPT !.thrust_percent = t]
\* the local gravity at the rocket's altitude (G = 1)
calculate_g(r) ==
    FDiv(r.pl.mass, FMul(r.pl.radius + r.coords.z, r.pl.radius + r.coords.z))
calculate_u(eng) == FDiv(eng.thrust, eng.consumption)

start_falling(dry_mass, fuel_mass, height, engine, pl) ==
    [time |-> 0, velocity |-> VEC3_ZERO, acc |-> VEC3_ZERO, directions |-> UP,
     thrust_percent |-> 0, dry_mass |-> dry_mass, fuel_mass |-> fuel_mass,
     coords |-> Vec(0, 0, height), engine |-> engine, pl |-> pl]

deltav(r) ==
    LET u    == calculate_u(r.engine)
        mass == FULL_MASS(r)
        g    == calculate_g(r)
    IN  FMul(u, log(FDiv(mass, mass - r.fuel_mass)))
          - FMul(g, FDiv(r.fuel_mass, r.engine.consumption))

\* variant for C16: the check of main always passes
AlwaysEnoughDeltav(r) == TRUE

is_enough_deltav(r) ==
    LET max_v == sqrt(FMul(FMul(Num(2), calculate_g(r)), r.coords.z))
    IN  deltav(r) > max_v

calculate_forces(r) ==
    LET mass == FULL_MASS(r)
    IN  Vec(0, 0, FDiv(CURRENT_THRUST(r) - FMul(mass, calculate_g(r)), mass))

\* the force model handed to an integrator, applied to a state
CallForces(forces, r) ==
    IF forces = "calculate_forces" THEN calculate_forces(r) ELSE VEC3_ZERO

\* variant for C24: the fuel burnt does not follow the throttle
BurnAtFullThrottle(r, h) == FMul(r.engine.consumption, h)

\* fuel burnt over a time h at the rate of state r
Burn(r, h) == FMul(FMul(r.engine.consumption, r.thrust_percent), h)

\* ------------------------------------------------------------------------
\* Integrators (common.c)
\* ------------------------------------------------------------------------
\* if (r->fuel_mass <= 0) { r->fuel_mass = 0; CHANGE_THRUST(*r, 0); }
Rk1OutOfFuel(r) ==
    IF r.fuel_mass <= 0 THEN [r EXCEPT !.fuel_mass = 0, !.thrust_percent = 0] ELSE r

\* variant for C1: the final fuel is left unclamped
OutOfFuelUnclamped(r) == r

\* if (r->fuel_mass < 0) { r->fuel_mass = 0; CHANGE_THRUST(*r, 0); }
OutOfFuel(r) ==
    IF r.fuel_mass < 0 THEN [r EXCEPT !.fuel_mass = 0, !.thrust_percent = 0] ELSE r

\* r->coords += r->velocity * dt with the new velocity, then the fuel
Rk1Move(r, dt) ==
    Rk1OutOfFuel([r EXCEPT !.coords = VAxpy(@, r.velocity, dt),
                           !.fuel_mass = @ - Burn(r, dt)])

\* r->acc = a; r->velocity += r->acc * dt
Rk1Accelerate(r, dt, a) ==
    With([r EXCEPT !.acc = a, !.velocity = VAxpy(@, a, dt)],
         LAMBDA s : Rk1Move(s, dt))

Rk1Timed(r, dt, forces) ==
    With(CallForces(forces, r),
         LAMBDA a : Rk1Accelerate(r, dt, a))

update_status_rk1(r, dt, new_directions, forces) ==
    Rk1Timed([r EXCEPT !.time = @ + dt, !.directions = new_directions], dt, forces)

\* the midpoint probe state k2 of RK2, from the start state r and a1
Rk2Midpoint(r, a1, h) ==
    [r EXCEPT !.coords = VAxpy(@, r.velocity, h),
              !.velocity = VAxpy(@, a1, h),
              !.fuel_mass = @ - Burn(r, h),
              !.time = @ + h]

\* step 4: update the state with the derivatives (v2, a2) of the midpoint
Rk2Update(r, dt, v2, a2) ==
    OutOfFuel([r EXCEPT !.time = @ + dt, !.acc = a2,
                        !.coords = VAxpy(@, v2, dt),
                        !.velocity = VAxpy(@, a2, dt),
                        !.fuel_mass = @ - Burn(r, dt)])

Rk2FromMidpoint(r, dt, forces, k2) ==
    With(CallForces(forces, k2),
         LAMBDA a2 : Rk2Update(r, dt, k2.velocity, a2))

Rk2FromStart(r, dt, forces, a1) ==
    With(Rk2Midpoint(r, a1, FDiv(dt, Num(2))),
         LAMBDA k2 : Rk2FromMidpoint(r, dt, forces, k2))

Rk2Directed(r, dt, forces) ==
    With(CallForces(forces, r),
         LAMBDA a1 : Rk2FromStart(r, dt, forces, a1))

update_status_rk2(r, dt, new_directions, forces) ==
    Rk2Directed([r EXCEPT !.directions = new_directions], dt, forces)

\* the sub-state of an RK4 stage: initial_state advanced by h along (v, a)
Rk4Stage(initial_state, v, a, h) ==
    [initial_state EXCEPT !.coords = VAxpy(@, v, h),
                          !.velocity = VAxpy(@, a, h),
                          !.fuel_mass = MAX(0, @ - Burn(initial_state, h))]

\* the derivatives (v, a) taken at a stage sub-state
Rk4Derivatives(forces, rk) ==
    With(rk, LAMBDA s : [v |-> s.velocity, a |-> CallForces(forces, s)])

\* combine the derivatives: vs and as are the sums weighted (1, 2, 2, 1)
Rk4Update(initial_state, dt, vs, as) ==
    OutOfFuel([initial_state EXCEPT
                 !.time = @ + dt,
                 !.coords = VAxpy(@, vs, FDiv(dt, Num(6))),
                 !.velocity = VAxpy(@, as, FDiv(dt, Num(6))),
                 !.acc = Vec(FDiv(as.x, Num(6)), FDiv(as.y, Num(6)), FDiv(as.z, Num(6))),
                 !.fuel_mass = @ - Burn(initial_state, dt)])

Rk4Combine(initial_state, dt, k1, k2, k3, k4) ==
    Rk4Update(initial_state, dt, VComb(k1.v, k2.v, k3.v, k4.v),
              VComb(k1.a, k2.a, k3.a, k4.a))

Rk4FromK3(initial_state, dt, forces, k1, k2, k3) ==
    With(Rk4Derivatives(forces, Rk4Stage(initial_state, k3.v, k3.a, dt)),
         LAMBDA k4 : Rk4Combine(initial_state, dt, k1, k2, k3, k4))

Rk4FromK2(initial_state, dt, forces, k1, k2) ==
    With(Rk4Derivatives(forces, Rk4Stage(initial_state, k2.v, k2.a, FDiv(dt, Num(2)))),
         LAMBDA k3 : Rk4FromK3(initial_state, dt, forces, k1, k2, k3))

Rk4FromK1(initial_state, dt, forces, k1) ==
    With(Rk4Derivatives(forces, Rk4Stage(initial_state, k1.v, k1.a, FDiv(dt, Num(2)))),
         LAMBDA k2 : Rk4FromK2(initial_state, dt, forces, k1, k2))

Rk4Directed(initial_state, dt, forces) ==
    With(Rk4Derivatives(forces, initial_state),
         LAMBDA k1 : Rk4FromK1(initial_state, dt, forces, k1))

update_status_rk4(r, dt, new_directions, forces) ==
    With([r EXCEPT !.directions = new_directions],
         LAMBDA initial_state : Rk4Directed(initial_state, dt, forces))

Integrators == {"rk1", "rk2", "rk4"}

\* scene->integrator(scene, new_directions, calculate_forces) on rocket r
Integrate(kind, r, dt, new_directions, forces) ==
    CASE kind = "rk1" -> update_status_rk1(r, dt, new_directions, forces)
      [] kind = "rk2" -> update_status_rk2(r, dt, new_directions, forces)
      [] kind = "rk4" -> update_status_rk4(r, dt, new_directions, forces)

\* variant for C28: the step is not taken
StepNotTaken(sc, r) == [scene |-> sc, r |-> r]

\* take_step: the scene clock and the rocket after one step
take_step(sc, r) ==
    [scene |-> [sc EXCEPT !.time = @ + sc.dt],
     r     |-> Integrate(sc.integrator, r, sc.dt, UP, "calculate_forces")]

\* ------------------------------------------------------------------------
\* Event system (common.c)
\* ------------------------------------------------------------------------
EV_NONE == "EV_NONE"
EV_GROUND_CONTACT == "EV_GROUND_CONTACT"
EV_UNSTABLE == "EV_UNSTABLE"

\* variant for C4: the time test of Unstable made non-strict
DetectorNonStrict(current_state, previous_state) ==
    IF current_state.coords.z <= 0 /\ previous_state.coords.z > 0
    THEN [event |-> EV_GROUND_CONTACT, r |-> current_state]
    ELSE IF current_state.velocity.z > 0 /\ current_state.time >= Num(1)
    THEN [event |-> EV_UNSTABLE,
          r |-> [current_state EXCEPT !.velocity.z = INFINITY]]
    ELSE [event |-> EV_NONE, r |-> current_state]

\* the event returned and the current state as the detector leaves it
ground_contact_detector(current_state, previous_state) ==
    IF current_state.coords.z <= 0 /\ previous_state.coords.z > 0
    THEN [event |-> EV_GROUND_CONTACT, r |-> current_state]
    ELSE IF current_state.velocity.z > 0 /\ current_state.time > Num(1)
    THEN [event |-> EV_UNSTABLE,
          r |-> [current_state EXCEPT !.velocity.z = INFINITY]]
    ELSE [event |-> EV_NONE, r |-> current_state]

InterpAlpha(current_state, previous_state) ==
    FDiv(previous_state.coords.z, previous_state.coords.z - current_state.coords.z)

\* variant for C6: no interpolation, the current value is kept
LerpKeepsCurrent(p, c, alpha) == c

\* p + alpha * (c - p)
Lerp(p, c, alpha) == p + FMul(alpha, c - p)

\* the state at z = 0 between previous state p and current state c
Interpolated(c, dt, p, alpha) ==
    [c EXCEPT
       !.time = p.time + FMul(alpha, dt),
       !.coords = Vec(Lerp(p.coords.x, c.coords.x, alpha),
                      Lerp(p.coords.y, c.coords.y, alpha), 0),
       !.velocity = Vec(Lerp(p.velocity.x, c.velocity.x, alpha),
                        Lerp(p.velocity.y, c.velocity.y, alpha),
                        Lerp(p.velocity.z, c.velocity.z, alpha)),
       !.fuel_mass = p.fuel_mass - FMul(alpha, p.fuel_mass - c.fuel_mass)]

hoverslam_event_interpolator(current_state, dt, previous_state, event) ==
    IF event # EV_GROUND_CONTACT THEN current_state
    ELSE Interpolated(current_state, dt, previous_state,
                      InterpAlpha(current_state, previous_state))

\* ------------------------------------------------------------------------
\* PID controller and cost (pid.c)
\* ------------------------------------------------------------------------
\* errs records the errors of the calls since the memory was last reset
PID0 == [K_p |-> 0, K_i |-> 0, K_d |-> 0, P |-> 0, I |-> 0, D |-> 0,
         integral |-> 0, prev_err |-> 0, errs |-> <<>>]

\* target_velocity - r->velocity.z
PidError(r) ==
    (0 - sqrt(FMul(FMul(Num(2), calculate_g(r)), r.coords.z))) - r.velocity.z

\* the terms P, I, D and the clamped, normalised output, from the error
\* and the updated integral
PidTerms(pid, r, dt, err, integral) ==
    [pid |-> [pid EXCEPT !.P = FMul(pid.K_p, err),
                         !.integral = integral,
                         !.I = FMul(pid.K_i, integral),
                         !.D = FDiv(FMul(pid.K_d, err - pid.prev_err), dt),
                         !.prev_err = err,
                         !.errs = Append(@, err)],
     thrust |-> FDiv(MAX(0, MIN(FMul(pid.K_p, err) + FMul(pid.K_i, integral)
                                  + FDiv(FMul(pid.K_d, err - pid.prev_err), dt),
                                r.engine.thrust)),
                     r.engine.thrust)]

\* variant for C26: the error is accumulated without the step
PidFromErrorUnscaled(pid, r, dt, err) ==
    PidTerms(pid, r, dt, err, pid.integral + err)

PidFromError(pid, r, dt, err) ==
    PidTerms(pid, r, dt, err, pid.integral + FMul(err, dt))

\* the controller after the call and the throttle returned
pid_calculate_thrust(pid, r, dt) ==
    With(PidError(r), LAMBDA err : PidFromError(pid, r, dt, err))

\* variant for C3: the command without the test for remaining fuel
PidCommandIgnoringFuel(r, desired_thrust) ==
    IF desired_thrust > 0
    THEN CHANGE_THRUST(r, MIN(Num(1), desired_thrust))
    ELSE CHANGE_THRUST(r, 0)

\* the throttle a PID driver commands from the controller's output
PidCommand(r, desired_thrust) ==
    IF desired_thrust > 0 /\ r.fuel_mass > 0
    THEN CHANGE_THRUST(r, MIN(Num(1), desired_thrust))
    ELSE CHANGE_THRUST(r, 0)

\* the value evaluate_pid_cost returns for the final state r
PidCost(weights, r, initial_fuel_mass) ==
    LET fuel_used == initial_fuel_mass - r.fuel_mass
    IN  XAdd(XAdd(XMul(weights[1], fabs(r.velocity.z)),
                  FMul(weights[2], Abs(r.coords.z))),
             FMul(weights[3], fuel_used))

\* ------------------------------------------------------------------------
\* Configuration file reader (fparser.c)
\* ------------------------------------------------------------------------
MAX_VARS == 64
MAX_SECTIONS == 64

\* the lines of a file as fparser_parse tells them apart: "[name]", a line
\* "name = value" both conversions of sscanf succeed on, and any other line
\* (empty, a key with no number, a key written without the blanks around =)
SectionLine(name) == [kind |-> "section", name |-> name, value |-> 0]
VarLine(name, value) == [kind |-> "var", name |-> name, value |-> value]
OtherLine == [kind |-> "other", name |-> "", value |-> 0]
\* a line "[" or "[]": it starts with '[' and sscanf reads no name from it
BadSectionLine == [kind |-> "badsection", name |-> "", value |-> 0]

\* fparser_t after fparser_init: no section, current = NULL (0)
FP0 == [sections |-> <<>>, current |-> 0]

\* the body of the loop of fparser_parse for one line
ParseLine(fp, line) ==
    IF line.kind \in {"section", "badsection"}
    THEN IF Len(fp.sections) >= MAX_SECTIONS THEN fp
         ELSE IF line.kind = "badsection" THEN fp
         ELSE [sections |-> Append(fp.sections, [name |-> line.name, vars |-> <<>>]),
               current |-> Len(fp.sections) + 1]
    ELSE IF line.kind = "var" /\ fp.current # 0
    THEN IF Len(fp.sections[fp.current].vars) >= MAX_VARS THEN fp
         ELSE [fp EXCEPT !.sections[fp.current].vars =
                             Append(@, [name |-> line.name, value |-> line.value])]
    ELSE fp

\* the values of fparser_t and of the lines read
Parsers ==
    [sections : Seq([name : STRING, vars : Seq([name : STRING, value : Int])]),
     current : Nat]
Lines == [kind : STRING, name : STRING, value : Int]

\* the loop of fparser_parse: fp after the lines still to read
ParseLines[fp \in Parsers, lines \in Seq(Lines)] ==
    IF lines = <<>> THEN fp ELSE ParseLines[ParseLine(fp, Head(lines)), Tail(lines)]

fparser_parse(lines) == ParseLines[FP0, lines]

\* (fparser_var_t){0}
NoVar == [name |-> "", value |-> 0]

\* the inner loop of fparser_get_var, from index j
RECURSIVE VarIn(_, _, _)
VarIn(fvars, var_name, j) ==
    IF j > Len(fvars) THEN NoVar
    ELSE IF fvars[j].name = var_name THEN fvars[j]
    ELSE VarIn(fvars, var_name, j + 1)

\* the outer loop of fparser_get_var, from index i
RECURSIVE VarAmong(_, _, _, _)
VarAmong(sections, section_name, var_name, i) ==
    IF i > Len(sections) THEN NoVar
    ELSE IF sections[i].name = section_name
            /\ VarIn(sections[i].vars, var_name, 1) # NoVar
    THEN VarIn(sections[i].vars, var_name, 1)
    ELSE VarAmong(sections, section_name, var_name, i + 1)

\* fp->file is still the non-null pointer fparser_init stored: fparser_free
\* closes the file and leaves the pointer as it is
fparser_get_var(fp, section_name, var_name) ==
    VarAmong(fp.sections, section_name, var_name, 1)

\* ------------------------------------------------------------------------
\* utils.c
\* ------------------------------------------------------------------------
\* round(): to the nearest integer, halfway cases away from zero
round(x) == Num(RoundDiv(x, Scale))

\* long long n = round(x + 0.5); diff = |x - n|; return diff <= tolerance
is_almost_integer(x, tolerance) == Abs(x - round(x + Scale \div 2)) <= tolerance

\* ------------------------------------------------------------------------
\* Logger (logger.c)
\* ------------------------------------------------------------------------
\* logger_t l = {NULL, NULL}, with the rows its file holds; returned is the
\* value the last call on it returned, fault is set when a call has
\* dereferenced a null pointer
LOGGER0 == [file |-> "NULL", rows |-> <<>>, returned |-> 0, fault |-> FALSE]

\* a null rocket_t * or PID *
NullObject == [null |-> TRUE]
IsNull(obj) == "null" \in DOMAIN obj

\* fopen succeeds
logger_init(filename) ==
    IF filename = "NULL" THEN LOGGER0 ELSE [LOGGER0 EXCEPT !.file = filename]

\* if (!l->file) return -1; return fflush(l->file);
logger_flush(lg) ==
    IF lg.file = "NULL" THEN [lg EXCEPT !.returned = 0 - 1] ELSE [lg EXCEPT !.returned = 0]

\* if (!l->file) return -1; fclose; l->file = NULL;
logger_free(lg) ==
    IF lg.file = "NULL" THEN [lg EXCEPT !.returned = 0 - 1]
    ELSE [lg EXCEPT !.file = "NULL", !.returned = 0]

\* if (!l->file || !r) return -1; return fprintln(l->file, "{}", r);
logger_write_rocket(lg, rr) ==
    IF lg.file = "NULL" \/ IsNull(rr) THEN [lg EXCEPT !.returned = 0 - 1]
    ELSE [lg EXCEPT !.rows = Append(@, rr), !.returned = 1]

\* pid->d.self = pid with pid null: the program stops on the store, or the
\* build has dropped the store and the call goes on to any of its returns
NullDereference(lg, obj) ==
    {[lg EXCEPT !.fault = TRUE],
     [lg EXCEPT !.returned = 0 - 1],
     [lg EXCEPT !.rows = Append(@, obj), !.returned = 1]}

\* variant for C30: the test of the object as logger_write_rocket has it
WritePidTestingNull(lg, pid) == {logger_write_rocket(lg, pid)}

\* if (!l->file || pid) return -1; pid->d.self = pid; return fprintln(...);
\* the outcomes of the call
logger_write_pid(lg, pid) ==
    IF lg.file = "NULL" \/ ~IsNull(pid) THEN {[lg EXCEPT !.returned = 0 - 1]}
    ELSE NullDereference(lg, pid)

\* a call through a logger_t * that is NULL returns -1 at `if (!l ...)`
ThroughPointer(lp, lg, outcomes) ==
    IF lp = "NULL" THEN {[lg EXCEPT !.returned = 0 - 1]} ELSE outcomes

\* if (log && is_almost_integer(r->time, 0.01)) logger_write_rocket(&l, r);
LogTolerance == Scale \div 100
Sampled(to_log, lg, rr) ==
    IF to_log /\ is_almost_integer(rr.time, LogTolerance)
    THEN logger_write_rocket(lg, rr) ELSE lg

\* ------------------------------------------------------------------------
\* Configurations: what main() reads from the command line and the file
\* ------------------------------------------------------------------------
Planet == [mass |-> Num(400), radius |-> Num(20)]
Engine == [thrust |-> Num(8), consumption |-> Num(1)]
DryMass == 2 * Scale
Altitudes == {0, Num(4), Num(8), Num(16)}
FuelMasses ==
    {(3 * Scale) \div 10, (12 * Scale) \div 10, (15 * Scale) \div 10, (24 * Scale) \div 10}
Steps == {(6 * Scale) \div 10, (3 * Scale) \div 10, (2 * Scale) \div 10}
Eps == Scale \div 2
Tolerance == (19 * Scale) \div 10

\* the sections of the rocket file the pid program reads its weights and its
\* start deltas from (they follow [planet], [engine] and [rocket])
WeightLines(velocity, altitude, fuel) ==
    <<SectionLine("pid_weights"), VarLine("velocity", velocity),
      VarLine("altitude", altitude), VarLine("fuel", fuel)>>
StartLines(K_p, K_d) ==
    <<SectionLine("pid_start_values"), VarLine("K_p", K_p), VarLine("K_d", K_d)>>

\* all keys present; the velocity weight 0; no pid section at all; K_i absent
PidFiles ==
    {WeightLines(Scale, Scale, Scale \div 10)
        \o StartLines(Scale, Scale \div 2) \o <<VarLine("K_i", Scale \div 2)>>,
     WeightLines(0, Scale, Scale \div 10)
        \o StartLines(Scale, Scale \div 2) \o <<VarLine("K_i", Scale \div 2)>>,
     <<>>,
     WeightLines(Scale, Scale, Scale \div 10) \o StartLines(Num(2), Scale \div 2)}

Configs ==
    [prog : {"hoverslam"}, integrator : Integrators, altitude : Altitudes,
     fuel_mass : FuelMasses, dt : Steps, log : BOOLEAN, file : {<<>>},
     synthetic : {0}]
    \cup
    [prog : {"pid"}, integrator : Integrators, altitude : Altitudes,
     fuel_mass : FuelMasses, dt : {(6 * Scale) \div 10}, log : BOOLEAN,
     file : PidFiles, synthetic : {0}]

\* main() of pid.c: the three weights and the three start deltas as read,
\* replaced by the defaults when all three are exactly zero
DefaultWeights == <<Num(1), Num(1), Scale \div 10>>
DefaultDeltas == <<Num(10), Num(5), Num(1)>>

ReadTriple(fp, section_name, k1, k2, k3) ==
    <<fparser_get_var(fp, section_name, k1).value,
      fparser_get_var(fp, section_name, k2).value,
      fparser_get_var(fp, section_name, k3).value>>

\* variant for C18: one zero among the three is enough for the defaults
OrDefaultAny(t, d) == IF t[1] = 0 \/ t[2] = 0 \/ t[3] = 0 THEN d ELSE t

OrDefault(t, d) == IF t[1] = 0 /\ t[2] = 0 /\ t[3] = 0 THEN d ELSE t

PidMainRead(fp) ==
    [fp |-> fp,
     weights |-> OrDefault(ReadTriple(fp, "pid_weights", "velocity", "altitude", "fuel"),
                           DefaultWeights),
     dp |-> OrDefault(ReadTriple(fp, "pid_start_values", "K_p", "K_i", "K_d"),
                      DefaultDeltas)]

\* ------------------------------------------------------------------------
\* State
\* ------------------------------------------------------------------------
VARIABLES
    cfg,      \* the configuration main() was started with
    pc,       \* position of the program
    scene,    \* simulator_t of main(): dt, time, integrator
    r,        \* the rocket scene.object points to
    prev,     \* prev / prev_state of the running loop
    event,    \* event of the running loop
    fed,      \* the rocket as last handed to take_step
    gs,       \* locals of golden_search_hoverslam
    probe,    \* argument and result of velocity_at_landing
    tw,       \* locals of tune_pid_twiddle
    pid,      \* the PID controller
    ev,       \* locals of evaluate_pid_cost
    run,      \* locals and result of the committed run
    args,     \* fp, weights and dp of main() of the pid program
    l         \* logger_t of the committed run, with the rows written

vars == <<cfg, pc, scene, r, prev, event, fed, gs, probe, tw, pid, ev, run, args, l>>

\* variant for C12: 1 / phi taken for phi
PhiInverse == (618 * Scale) \div 1000

PHI == (1618 * Scale) \div 1000

\* a rocket and a scene not written yet
NoRocket ==
    start_falling(0, 0, 0, [thrust |-> 0, consumption |-> 0], [mass |-> 0, radius |-> 0])
NoScene == [dt |-> 0, time |-> 0, integrator |-> "none"]

GS0 == [r |-> NoRocket, time |-> 0, dt |-> 0, left |-> 0, right |-> 0, m1 |-> 0, m2 |-> 0,
        f_m1 |-> 0, f_m2 |-> 0, stage |-> "none", evals |-> 0, iters |-> 0,
        dropped |-> 0, seen |-> <<>>]
TW0 == [p |-> <<0, 0, 0>>, dp |-> <<0, 0, 0>>, best_err |-> 0, i |-> 0,
        initial_rocket_state |-> NoRocket, initial_scene_time |-> 0, stage |-> "none",
        sweeps |-> 0, evals |-> <<>>, reduced |-> {}]
EV0 == [scene |-> NoScene, initial_fuel_mass |-> 0, cost |-> 0]
\* the call of velocity_at_landing in progress: its argument, the value it
\* returned and the rocket as it left it
PROBE0 == [ignition_time |-> 0, result |-> 0, final |-> NoRocket]
\* throttle records the thrust_percent each step of the committed hoverslam
\* run was taken with
RUN0 == [time_to_burn |-> 0, it |-> 0, result |-> NoRocket, throttle |-> <<>>]
ARGS0 == [fp |-> FP0, weights |-> <<0, 0, 0>>, dp |-> <<0, 0, 0>>]

\* what main() has read into weights and dp when it builds the rocket
MainRead(c) ==
    IF c.prog = "pid" THEN With(fparser_parse(c.file), LAMBDA fp : PidMainRead(fp)) ELSE ARGS0

Init ==
    /\ cfg \in Configs
    /\ pc = "main"
    /\ scene = [dt |-> 0, time |-> 0, integrator |-> "none"]
    /\ r = start_falling(DryMass, cfg.fuel_mass, cfg.altitude, Engine, Planet)
    /\ prev = r
    /\ fed = r
    /\ event = EV_NONE
    /\ gs = GS0
    /\ probe = PROBE0
    /\ tw = TW0
    /\ pid = PID0
    /\ ev = EV0
    /\ run = RUN0
    /\ args = ARGS0
    /\ l = LOGGER0

\* the outcome of a loop pass: the scene, the rocket and the event
Detected(sc, det) == [scene |-> sc, r |-> det.r, event |-> det.event]

AfterStep(ts, prv) ==
    With(ground_contact_detector(ts.r, prv),
         LAMBDA det : Detected(ts.scene, det))

\* one pass of a run-to-completion loop body after the thrust command:
\* take_step, then the event detector against previous state prv
StepAndDetect(sc, rr, prv) ==
    With(take_step(sc, rr),
         LAMBDA ts : AfterStep(ts, prv))

\* variant for C5: the break taken on altitude alone
LoopExitsOnAltitude(e, rr) == e = EV_GROUND_CONTACT \/ rr.coords.z <= Num(2)

\* the loops leave on GroundContact (loop test) or on the break
LoopExits(e, rr) == e = EV_GROUND_CONTACT \/ e = EV_UNSTABLE \/ rr.coords.z <= 0

\* ------------------------------------------------------------------------
\* main() of both programs, up to the call of the simulation
\* ------------------------------------------------------------------------
\* the file is read, the rocket is built, and is_enough_deltav fails:
\* return -1
MainRejects ==
    /\ pc = "main"
    /\ args' = MainRead(cfg)
    /\ ~is_enough_deltav(r)
    /\ pc' = "exit_failure"
    /\ UNCHANGED <<cfg, scene, r, prev, event, fed, gs, probe, tw, pid, ev, run, l>>

\* the file is read, the rocket is built, the scene is set up and the
\* simulation is called
MainStarts ==
    /\ pc = "main"
    /\ args' = MainRead(cfg)
    /\ is_enough_deltav(r)
    /\ scene' = [dt |-> cfg.dt, time |-> 0, integrator |-> cfg.integrator]
    /\ pc' = IF cfg.prog = "hoverslam" THEN "gs_enter" ELSE "tw_enter"
    /\ UNCHANGED <<cfg, r, prev, event, fed, gs, probe, tw, pid, ev, run, l>>

\* ------------------------------------------------------------------------
\* hoverslam.c: velocity_at_landing
\* ------------------------------------------------------------------------
\* one iteration of the loop of velocity_at_landing
ProbeStep ==
    /\ pc = "probe"
    /\ r.time < Num(MaxTime)
    /\ \E r1 \in {IF scene.time >= probe.ignition_time /\ r.thrust_percent = 0
                  THEN CHANGE_THRUST(r, Num(1)) ELSE r} :
       \E s \in {StepAndDetect(scene, r1, r1)} :
           /\ prev' = r1
           /\ fed' = r1
           /\ scene' = s.scene
           /\ r' = s.r
           /\ event' = s.event
           /\ pc' = IF LoopExits(s.event, s.r) THEN "probe_end" ELSE "probe"
    /\ UNCHANGED <<cfg, gs, probe, tw, pid, ev, run, args, l>>

\* after the loop: interpolate, take |velocity.z|, reset the scene clock
ProbeEnd ==
    /\ pc = "probe_end"
    /\ \E r1 \in {hoverslam_event_interpolator(r, scene.dt, prev, event)} :
           /\ r' = r1
           /\ probe' = [probe EXCEPT !.result = fabs(r1.velocity.z), !.final = r1]
    /\ scene' = [scene EXCEPT !.time = 0]
    /\ pc' = "gs_ret"
    /\ UNCHANGED <<cfg, prev, event, fed, gs, tw, pid, ev, run, args, l>>

\* ------------------------------------------------------------------------
\* hoverslam.c: golden_search_hoverslam
\* ------------------------------------------------------------------------
\* scene->dt = dt; scene->time = time; *(rocket_t *)scene->object = r;
GsRestoredScene == [scene EXCEPT !.dt = gs.dt, !.time = gs.time]
\* variant for C10: the rocket is left as the last probe left it
GsKeptRocket == r

GsRestoredRocket == gs.r

\* hoverslam_simulation opens the log when asked to and calls the search;
\* entry of the search: save the baseline, set the bracket, call the
\* objective at m1
GsEnter ==
    /\ pc = "gs_enter"
    /\ l' = IF cfg.log THEN logger_init("hoverslam_sim.csv") ELSE LOGGER0
    /\ \E right \in {sqrt(FDiv(FMul(r.coords.z, Num(2)), calculate_g(r)))} :
       \E left \in {0} :
       \E m1 \in {right - FDiv(right - left, PHI)} :
       \E m2 \in {left + FDiv(right - left, PHI)} :
           /\ gs' = [gs EXCEPT !.r = r, !.time = scene.time, !.dt = scene.dt,
                               !.left = left, !.right = right, !.m1 = m1, !.m2 = m2,
                               !.stage = "first", !.evals = 1]
           /\ probe' = [PROBE0 EXCEPT !.ignition_time = m1]
    /\ event' = EV_NONE
    /\ pc' = "probe"
    /\ UNCHANGED <<cfg, scene, r, prev, fed, tw, pid, ev, run, args>>

\* the calls of velocity_at_landing that have returned so far, in order:
\* the ignition time passed and the value returned
Returned(g, pr) == Append(g.seen, [t |-> pr.ignition_time, value |-> pr.result])

\* f_m1 is back: restore the baseline, call the objective at m2
GsAfterFirst ==
    /\ pc = "gs_ret" /\ gs.stage = "first"
    /\ gs' = [gs EXCEPT !.f_m1 = probe.result, !.stage = "second", !.evals = @ + 1,
                        !.seen = Returned(gs, probe)]
    /\ scene' = GsRestoredScene
    /\ r' = GsRestoredRocket
    /\ probe' = [PROBE0 EXCEPT !.ignition_time = gs.m2]
    /\ event' = EV_NONE
    /\ pc' = "probe"
    /\ UNCHANGED <<cfg, prev, fed, tw, pid, ev, run, args, l>>

\* f_m2 is back: restore the baseline, go to the loop test
GsAfterSecond ==
    /\ pc = "gs_ret" /\ gs.stage = "second"
    /\ gs' = [gs EXCEPT !.f_m2 = probe.result, !.stage = "loop",
                        !.seen = Returned(gs, probe)]
    /\ scene' = GsRestoredScene
    /\ r' = GsRestoredRocket
    /\ pc' = "gs_loop"
    /\ UNCHANGED <<cfg, prev, event, fed, probe, tw, pid, ev, run, args, l>>

\* variant for C13: the value of the interior point that is kept is not
\* carried over to its new name
GsShrunkNoCarry(g) ==
    IF FLess(g.f_m1, g.f_m2)
    THEN [g EXCEPT !.right = g.m2, !.m2 = g.m1,
                   !.m1 = g.m2 - FDiv(g.m2 - g.left, PHI),
                   !.stage = "iter_m1",
                   !.evals = @ + 1, !.iters = @ + 1, !.dropped = g.f_m2]
    ELSE [g EXCEPT !.left = g.m1, !.m1 = g.m2,
                   !.m2 = g.m1 + FDiv(g.right - g.m1, PHI),
                   !.stage = "iter_m2",
                   !.evals = @ + 1, !.iters = @ + 1, !.dropped = g.f_m1]

\* the body of the loop up to the call of the objective: the bracket, the
\* interior points and the value carried over.  dropped records the value
\* that is overwritten.
GsShrunk(g) ==
    IF FLess(g.f_m1, g.f_m2)
    THEN [g EXCEPT !.right = g.m2, !.m2 = g.m1,
                   !.m1 = g.m2 - FDiv(g.m2 - g.left, PHI),
                   !.f_m2 = g.f_m1, !.stage = "iter_m1",
                   !.evals = @ + 1, !.iters = @ + 1, !.dropped = g.f_m2]
    ELSE [g EXCEPT !.left = g.m1, !.m1 = g.m2,
                   !.m2 = g.m1 + FDiv(g.right - g.m1, PHI),
                   !.f_m1 = g.f_m2, !.stage = "iter_m2",
                   !.evals = @ + 1, !.iters = @ + 1, !.dropped = g.f_m1]

\* one iteration: restore the baseline, shrink the bracket, call the objective
GsIterate ==
    /\ pc = "gs_loop"
    /\ gs.right - gs.left > Eps
    /\ scene' = GsRestoredScene
    /\ r' = GsRestoredRocket
    /\ \E g \in {GsShrunk(gs)} :
           /\ gs' = g
           /\ probe' = [PROBE0 EXCEPT
                           !.ignition_time = IF g.stage = "iter_m1" THEN g.m1 ELSE g.m2]
    /\ event' = EV_NONE
    /\ pc' = "probe"
    /\ UNCHANGED <<cfg, prev, fed, tw, pid, ev, run, args, l>>

\* variant for C21: the value that is back is stored under the other name
GsAfterIterateSwapped ==
    /\ pc = "gs_ret" /\ gs.stage \in {"iter_m1", "iter_m2"}
    /\ gs' = IF gs.stage = "iter_m1"
             THEN [gs EXCEPT !.f_m2 = probe.result, !.stage = "loop",
                             !.seen = Returned(gs, probe)]
             ELSE [gs EXCEPT !.f_m1 = probe.result, !.stage = "loop",
                             !.seen = Returned(gs, probe)]
    /\ pc' = "gs_loop"
    /\ UNCHANGED <<cfg, scene, r, prev, event, fed, probe, tw, pid, ev, run, args, l>>

\* the objective value of the iteration is back
GsAfterIterate ==
    /\ pc = "gs_ret" /\ gs.stage \in {"iter_m1", "iter_m2"}
    /\ gs' = IF gs.stage = "iter_m1"
             THEN [gs EXCEPT !.f_m1 = probe.result, !.stage = "loop",
                             !.seen = Returned(gs, probe)]
             ELSE [gs EXCEPT !.f_m2 = probe.result, !.stage = "loop",
                             !.seen = Returned(gs, probe)]
    /\ pc' = "gs_loop"
    /\ UNCHANGED <<cfg, scene, r, prev, event, fed, probe, tw, pid, ev, run, args, l>>

\* loop exit: restore the baseline, return the midpoint to hoverslam_simulation
GsReturn ==
    /\ pc = "gs_loop"
    /\ ~(gs.right - gs.left > Eps)
    /\ scene' = GsRestoredScene
    /\ r' = GsRestoredRocket
    /\ gs' = [gs EXCEPT !.stage = "returned"]
    /\ run' = [run EXCEPT !.time_to_burn = FDiv(gs.left + gs.right, Num(2)), !.it = 0]
    /\ event' = EV_NONE
    /\ pc' = "commit"
    /\ UNCHANGED <<cfg, prev, fed, probe, tw, pid, ev, args, l>>

\* ------------------------------------------------------------------------
\* hoverslam.c: hoverslam_simulation, the committed run
\* ------------------------------------------------------------------------
\* variant for C27: the engine is ignited without the test for fuel
IgniteOnEmptyTank(rr, time_to_burn) ==
    IF rr.time >= time_to_burn /\ rr.thrust_percent = 0
    THEN CHANGE_THRUST(rr, Num(1)) ELSE rr

\* if (r->time >= time_to_burn && r->thrust_percent == 0 && r->fuel_mass > 0)
\*   CHANGE_THRUST(*r, 1);
Ignite(rr, time_to_burn) ==
    IF rr.time >= time_to_burn /\ rr.thrust_percent = 0 /\ rr.fuel_mass > 0
    THEN CHANGE_THRUST(rr, Num(1)) ELSE rr

\* one iteration of the loop of hoverslam_simulation
CommitStep ==
    /\ pc = "commit"
    /\ r.time < Num(MaxTime)
    /\ \E r1 \in {Ignite(r, run.time_to_burn)} :
       \E s \in {StepAndDetect(scene, r1, r)} :
           /\ prev' = r
           /\ fed' = r1
           /\ scene' = s.scene
           /\ r' = s.r
           /\ event' = s.event
           /\ l' = Sampled(cfg.log, l, s.r)
           /\ pc' = IF LoopExits(s.event, s.r) THEN "commit_end" ELSE "commit"
           /\ run' = [run EXCEPT !.it = @ + 1,
                                 !.throttle = Append(@, r1.thrust_percent)]
    /\ UNCHANGED <<cfg, gs, probe, tw, pid, ev, args>>

CommitEnd ==
    /\ pc = "commit_end"
    /\ \E r1 \in {hoverslam_event_interpolator(r, scene.dt, prev, event)} :
           /\ r' = r1
           /\ run' = [run EXCEPT !.result = r1]
    /\ l' = logger_free(l)
    /\ pc' = "done"
    /\ UNCHANGED <<cfg, scene, prev, event, fed, gs, probe, tw, pid, ev, args>>

HoverslamNext ==
    \/ ProbeStep \/ ProbeEnd
    \/ GsEnter \/ GsAfterFirst \/ GsAfterSecond \/ GsIterate \/ GsAfterIterate \/ GsReturn
    \/ CommitStep \/ CommitEnd

\* ------------------------------------------------------------------------
\* pid.c: evaluate_pid_cost
\* ------------------------------------------------------------------------
\* entry of evaluate_pid_cost(&pid, scene, weights): the scene is passed by
\* value, the controller's memory is reset, the initial fuel is noted
EvalEntered(sc, rr) == [scene |-> sc, initial_fuel_mass |-> rr.fuel_mass, cost |-> 0]
\* variant for C11: the controller's memory is left as the last run left it
PidKeepsMemory(c) == c

PidReset(c) == [c EXCEPT !.integral = 0, !.prev_err = 0, !.errs = <<>>]

\* one iteration of the loop of evaluate_pid_cost
EvalStep ==
    /\ pc = "eval"
    /\ r.time < Num(MaxTime)
    /\ \E c \in {pid_calculate_thrust(pid, r, ev.scene.dt)} :
       \E r1 \in {PidCommand(r, c.thrust)} :
       \E s \in {StepAndDetect(ev.scene, r1, r)} :
           /\ pid' = c.pid
           /\ prev' = r
           /\ fed' = r1
           /\ ev' = [ev EXCEPT !.scene = s.scene]
           /\ r' = s.r
           /\ event' = s.event
           /\ pc' = IF LoopExits(s.event, s.r) THEN "eval_end" ELSE "eval"
    /\ UNCHANGED <<cfg, scene, gs, probe, tw, run, args, l>>

\* after the loop: interpolate and return the weighted cost
EvalEnd ==
    /\ pc = "eval_end"
    /\ \E r1 \in {hoverslam_event_interpolator(r, ev.scene.dt, prev, event)} :
           /\ r' = r1
           /\ ev' = [ev EXCEPT !.cost = PidCost(args.weights, r1, ev.initial_fuel_mass)]
    /\ pc' = "tw_ret"
    /\ UNCHANGED <<cfg, scene, prev, event, fed, gs, probe, tw, pid, run, args, l>>

\* ------------------------------------------------------------------------
\* pid.c: tune_pid_twiddle
\* ------------------------------------------------------------------------
\* history: the gains of the evaluation that has just returned and its cost
Evaluated(t, cost) == Append(t.evals, [p |-> t.p, cost |-> cost])

\* an array of three numbers as the doubles that hold them
Doubles(a) == [k \in 1..3 |-> Stored(a[k])]

WithGains(c, p) == [c EXCEPT !.K_p = p[1], !.K_i = p[2], !.K_d = p[3]]
SumDp(dp) == dp[1] + dp[2] + dp[3]
Grow(d) == Stored(FMul(d, (11 * Scale) \div 10))
Shrink(d) == Stored(FMul(d, (9 * Scale) \div 10))

\* the position after coordinate i is finished: the next coordinate, or
\* the loop test after the third
AfterCoord(i) == IF i = 2 THEN "tw_loop" ELSE "tw_coord"

\* p[i] += dp[i];
TwPlus(t) == [t EXCEPT !.p[t.i + 1] = FAdd(@, t.dp[t.i + 1]), !.stage = "plus"]

\* variant for C14: the better cost found is not remembered as best_err
TwKeepStaleBest(t, err) ==
    [t EXCEPT !.dp[t.i + 1] = Grow(@),
              !.i = IF t.i = 2 THEN 0 ELSE @ + 1,
              !.stage = "loop",
              !.evals = Evaluated(t, err)]

\* best_err = err; dp[i] *= 1.1; and on to the next coordinate
TwKeep(t, err) ==
    [t EXCEPT !.best_err = err,
              !.dp[t.i + 1] = Grow(@),
              !.i = IF t.i = 2 THEN 0 ELSE @ + 1,
              !.stage = "loop",
              !.evals = Evaluated(t, err)]

\* p[i] -= 2 * dp[i];
TwMinus(t, err) ==
    [t EXCEPT !.p[t.i + 1] = FSub(@, 2 * t.dp[t.i + 1]),
              !.stage = "minus",
              !.evals = Evaluated(t, err)]

\* p[i] += dp[i]; dp[i] *= 0.9; and on to the next coordinate.  reduced
\* records the coordinates whose step was reduced at least once.
TwRevert(t, err) ==
    [t EXCEPT !.p[t.i + 1] = FAdd(@, t.dp[t.i + 1]),
              !.dp[t.i + 1] = Shrink(@),
              !.i = IF t.i = 2 THEN 0 ELSE @ + 1,
              !.stage = "loop",
              !.evals = Evaluated(t, err),
              !.reduced = @ \cup {t.i}]

\* the cost err of p[i] + dp[i] is back: if (err < best_err) ... else ...
TwJudgePlus(t, err) == IF FLess(err, t.best_err) THEN TwKeep(t, err) ELSE TwMinus(t, err)

\* the cost err of p[i] - dp[i] is back: if (err < best_err) ... else ...
TwJudgeMinus(t, err) == IF FLess(err, t.best_err) THEN TwKeep(t, err) ELSE TwRevert(t, err)

\* pid_landing_simulation opens the log when asked to and calls the tuner;
\* entry of the tuner: zero gains, save the baseline, evaluate the initial
\* cost.  dp is the array of main().
TwEnter ==
    /\ pc = "tw_enter"
    /\ l' = IF cfg.log THEN logger_init("pid_flight_sim.csv") ELSE LOGGER0
    /\ tw' = [tw EXCEPT !.p = <<0, 0, 0>>, !.dp = Doubles(args.dp), !.i = 0,
                        !.initial_rocket_state = r,
                        !.initial_scene_time = scene.time,
                        !.stage = "first", !.sweeps = 0]
    /\ pid' = PidReset(PID0)
    /\ ev' = EvalEntered(scene, r)
    /\ event' = EV_NONE
    /\ pc' = "eval"
    /\ UNCHANGED <<cfg, scene, r, prev, fed, gs, probe, run, args>>

\* best_err is back: restore the baseline, go to the loop test
TwAfterFirst ==
    /\ pc = "tw_ret" /\ tw.stage = "first"
    /\ tw' = [tw EXCEPT !.best_err = ev.cost, !.stage = "loop",
                        !.evals = Evaluated(tw, ev.cost)]
    /\ r' = tw.initial_rocket_state
    /\ pc' = "tw_loop"
    /\ UNCHANGED <<cfg, scene, prev, event, fed, gs, probe, pid, ev, run, args, l>>

\* loop test passed: start a sweep at coordinate 0
TwSweep ==
    /\ pc = "tw_loop"
    /\ SumDp(tw.dp) > Tolerance
    /\ tw.sweeps < MaxSweeps
    /\ tw' = [tw EXCEPT !.i = 0, !.sweeps = @ + 1]
    /\ pc' = "tw_coord"
    /\ UNCHANGED <<cfg, scene, r, prev, event, fed, gs, probe, pid, ev, run, args, l>>

\* p[i] += dp[i] and evaluate
TwTryPlus ==
    /\ pc = "tw_coord"
    /\ \E t \in {TwPlus(tw)} :
           /\ tw' = t
           /\ pid' = PidReset(WithGains(pid, t.p))
    /\ ev' = EvalEntered(scene, r)
    /\ event' = EV_NONE
    /\ pc' = "eval"
    /\ UNCHANGED <<cfg, scene, r, prev, fed, gs, probe, run, args, l>>

\* the cost of p[i] + dp[i] is back: keep it, or evaluate p[i] - dp[i]
TwAfterPlus ==
    /\ pc = "tw_ret" /\ tw.stage = "plus"
    /\ r' = tw.initial_rocket_state
    /\ \E t \in {TwJudgePlus(tw, ev.cost)} :
           /\ tw' = t
           /\ IF t.stage = "loop"
              THEN /\ pc' = AfterCoord(tw.i)
                   /\ UNCHANGED <<pid, ev, event>>
              ELSE /\ pid' = PidReset(WithGains(pid, t.p))
                   /\ ev' = EvalEntered(scene, tw.initial_rocket_state)
                   /\ event' = EV_NONE
                   /\ pc' = "eval"
    /\ UNCHANGED <<cfg, scene, prev, fed, gs, probe, run, args, l>>

\* the cost of p[i] - dp[i] is back: keep it, or revert and shrink
TwAfterMinus ==
    /\ pc = "tw_ret" /\ tw.stage = "minus"
    /\ r' = tw.initial_rocket_state
    /\ tw' = TwJudgeMinus(tw, ev.cost)
    /\ pc' = AfterCoord(tw.i)
    /\ UNCHANGED <<cfg, scene, prev, event, fed, gs, probe, pid, ev, run, args, l>>

\* loop exit: return the controller with the gains p to
\* pid_landing_simulation, which resets its memory
TwReturn ==
    /\ pc = "tw_loop"
    /\ ~(SumDp(tw.dp) > Tolerance)
    /\ pid' = PidReset(WithGains(pid, tw.p))
    /\ tw' = [tw EXCEPT !.stage = "returned"]
    /\ run' = [run EXCEPT !.it = 0]
    /\ event' = EV_NONE
    /\ pc' = "pid_commit"
    /\ UNCHANGED <<cfg, scene, r, prev, fed, gs, probe, ev, args, l>>

\* ------------------------------------------------------------------------
\* pid.c: pid_landing_simulation, the committed run
\* ------------------------------------------------------------------------
PidCommitStep ==
    /\ pc = "pid_commit"
    /\ r.time < Num(MaxTime)
    /\ \E c \in {pid_calculate_thrust(pid, r, scene.dt)} :
       \E r1 \in {PidCommand(r, c.thrust)} :
       \E s \in {StepAndDetect(scene, r1, r)} :
           /\ pid' = c.pid
           /\ prev' = r
           /\ fed' = r1
           /\ scene' = s.scene
           /\ r' = s.r
           /\ event' = s.event
           /\ l' = Sampled(cfg.log, l, s.r)
           /\ pc' = IF LoopExits(s.event, s.r) THEN "pid_commit_end" ELSE "pid_commit"
    /\ run' = [run EXCEPT !.it = @ + 1]
    /\ UNCHANGED <<cfg, gs, probe, tw, ev, args>>

PidCommitEnd ==
    /\ pc = "pid_commit_end"
    /\ \E r1 \in {hoverslam_event_interpolator(r, scene.dt, prev, event)} :
           /\ r' = r1
           /\ run' = [run EXCEPT !.result = r1]
    /\ l' = logger_free(l)
    /\ pc' = "done"
    /\ UNCHANGED <<cfg, scene, prev, event, fed, gs, probe, tw, pid, ev, args>>

PidNext ==
    \/ EvalStep \/ EvalEnd
    \/ TwEnter \/ TwAfterFirst \/ TwSweep \/ TwTryPlus \/ TwAfterPlus \/ TwAfterMinus
    \/ TwReturn
    \/ PidCommitStep \/ PidCommitEnd

Next == MainRejects \/ MainStarts \/ HoverslamNext \/ PidNext

Spec == Init /\ [][Next]_vars

\* the programs are single-threaded and run on without interruption: a
\* step that can be taken is taken
FairSpec == Spec /\ WF_vars(Next)

\* ------------------------------------------------------------------------
\* The event system on its own: ground_contact_detector, then
\* hoverslam_event_interpolator, on a pair (current, previous) one step of
\* scene.dt apart
\* ------------------------------------------------------------------------
\* the state a caller holds before and after a step: the fields the event
\* system reads or writes
EventState(t, z, vz, x, vx, fuel) ==
    [start_falling(DryMass, fuel, z, Engine, Planet) EXCEPT
        !.time = t, !.velocity = Vec(vx, 0, vz), !.coords = Vec(x, 0, z)]

PreviousStates ==
    {EventState(t, z, vz, x, 0, fuel) :
        t \in {(4 * Scale) \div 10, (7 * Scale) \div 10, Num(1)},
        z \in {0 - Num(1), 0, Num(1), Num(3)},
        vz \in {0 - Num(1), Num(1)},
        x \in {0, Num(2)},
        fuel \in {Scale \div 2, Num(1)}}

CurrentStates(p, dt) ==
    {EventState(p.time + dt, z, vz, x, vx, fuel) :
        z \in {0 - Num(1), 0, Num(1)},
        vz \in {0 - Num(3), 0, Num(2)},
        x \in {Num(4)},
        vx \in {0, Num(1)},
        fuel \in {0, Scale \div 2}}

EventInit ==
    /\ cfg = [prog |-> "events", integrator |-> "none", altitude |-> 0,
              fuel_mass |-> 0, dt |-> 0, log |-> FALSE, file |-> <<>>, synthetic |-> 0]
    /\ pc = "detect"
    /\ \E dt \in Steps :
          /\ scene = [dt |-> dt, time |-> 0, integrator |-> "none"]
          /\ prev \in PreviousStates
          /\ r \in CurrentStates(prev, dt)
    /\ fed = r
    /\ event = EV_NONE
    /\ gs = GS0
    /\ probe = PROBE0
    /\ tw = TW0
    /\ pid = PID0
    /\ ev = EV0
    /\ run = RUN0
    /\ args = ARGS0
    /\ l = LOGGER0

\* event = scene->event_detector(scene, &prev)
EventDetect ==
    /\ pc = "detect"
    /\ \E det \in {ground_contact_detector(r, prev)} :
           /\ r' = det.r
           /\ event' = det.event
    /\ pc' = "interpolate"
    /\ UNCHANGED <<cfg, scene, prev, fed, gs, probe, tw, pid, ev, run, args, l>>

\* scene->event_interpolator(scene, &prev, event)
EventInterpolate ==
    /\ pc = "interpolate"
    /\ r' = hoverslam_event_interpolator(r, scene.dt, prev, event)
    /\ pc' = "interpolated"
    /\ UNCHANGED <<cfg, scene, prev, event, fed, gs, probe, tw, pid, ev, run, args, l>>

EventNext == EventDetect \/ EventInterpolate

EventSpec == EventInit /\ [][EventNext]_vars

\* ------------------------------------------------------------------------
\* The loop body of golden_search_hoverslam on its own: one iteration from a
\* bracket with its two interior points and any pair of objective values
\* ------------------------------------------------------------------------
ObjectiveValues == {0, (7 * Scale) \div 10, (15 * Scale) \div 10, INFINITY}

Brackets ==
    {[GS0 EXCEPT !.left = left, !.right = left + width,
                 !.m1 = (left + width) - FDiv(width, PHI),
                 !.m2 = left + FDiv(width, PHI),
                 !.f_m1 = f_m1, !.f_m2 = f_m2, !.stage = "loop", !.evals = 2] :
        left \in {0, Scale \div 2}, width \in {Num(1), Num(3)},
        f_m1 \in ObjectiveValues, f_m2 \in ObjectiveValues}

BracketInit ==
    /\ cfg = [prog |-> "bracket", integrator |-> "none", altitude |-> 0,
              fuel_mass |-> 0, dt |-> 0, log |-> FALSE, file |-> <<>>, synthetic |-> 0]
    /\ pc = "bracket"
    /\ scene = [dt |-> 0, time |-> 0, integrator |-> "none"]
    /\ r = start_falling(DryMass, 0, 0, Engine, Planet)
    /\ prev = r
    /\ fed = r
    /\ event = EV_NONE
    /\ gs \in Brackets
    /\ probe = PROBE0
    /\ tw = TW0
    /\ pid = PID0
    /\ ev = EV0
    /\ run = RUN0
    /\ args = ARGS0
    /\ l = LOGGER0

BracketShrink ==
    /\ pc = "bracket"
    /\ gs.right - gs.left > Eps
    /\ gs' = GsShrunk(gs)
    /\ pc' = "bracket_done"
    /\ UNCHANGED <<cfg, scene, r, prev, event, fed, probe, tw, pid, ev, run, args, l>>

\* the programs together with the loop body on enumerated values
SearchInit == Init \/ BracketInit

SearchNext == Next \/ BracketShrink

SearchSpec == SearchInit /\ [][SearchNext]_vars

\* ------------------------------------------------------------------------
\* golden_search_hoverslam with a synthetic objective f(t) = (t - t*)^2 in the
\* place of velocity_at_landing, from any bracket that contains t*
\* ------------------------------------------------------------------------
\* the objective at t; cfg.synthetic is t*
Unimodal(t) == FMul(t - cfg.synthetic, t - cfg.synthetic)

UniBrackets ==
    {[left |-> left, right |-> left + width] :
        left \in {0, Scale \div 2, Num(1)}, width \in {Num(2), Num(3), Num(5)}}

UniTargets(b) ==
    {t \in {b.left + k * (Scale \div 4) : k \in 0..20} : t <= b.right}

UniInit ==
    /\ \E b \in UniBrackets :
          /\ cfg \in [prog : {"unimodal"}, integrator : {"none"}, altitude : {0},
                       fuel_mass : {0}, dt : {0}, log : {FALSE}, file : {<<>>},
                       synthetic : UniTargets(b)]
          /\ gs = [GS0 EXCEPT !.left = b.left, !.right = b.right]
    /\ pc = "uni_enter"
    /\ scene = [dt |-> 0, time |-> 0, integrator |-> "none"]
    /\ r = start_falling(DryMass, 0, 0, Engine, Planet)
    /\ prev = r
    /\ fed = r
    /\ event = EV_NONE
    /\ probe = PROBE0
    /\ tw = TW0
    /\ pid = PID0
    /\ ev = EV0
    /\ run = RUN0
    /\ args = ARGS0
    /\ l = LOGGER0

\* the interior points and their two values, before the loop
UniEnter ==
    /\ pc = "uni_enter"
    /\ \E m1 \in {gs.right - FDiv(gs.right - gs.left, PHI)} :
       \E m2 \in {gs.left + FDiv(gs.right - gs.left, PHI)} :
           gs' = [gs EXCEPT !.m1 = m1, !.m2 = m2, !.f_m1 = Unimodal(m1),
                            !.f_m2 = Unimodal(m2), !.stage = "loop", !.evals = 2]
    /\ pc' = "uni_loop"
    /\ UNCHANGED <<cfg, scene, r, prev, event, fed, probe, tw, pid, ev, run, args, l>>

\* the value of the objective at the new interior point of an iteration
UniEvaluated(g) ==
    IF g.stage = "iter_m1"
    THEN [g EXCEPT !.f_m1 = Unimodal(g.m1), !.stage = "loop"]
    ELSE [g EXCEPT !.f_m2 = Unimodal(g.m2), !.stage = "loop"]

\* one iteration of the loop
UniIterate ==
    /\ pc = "uni_loop"
    /\ gs.right - gs.left > Eps
    /\ gs' = UniEvaluated(GsShrunk(gs))
    /\ UNCHANGED <<cfg, pc, scene, r, prev, event, fed, probe, tw, pid, ev, run, args, l>>

\* loop exit: return the midpoint
UniReturn ==
    /\ pc = "uni_loop"
    /\ ~(gs.right - gs.left > Eps)
    /\ gs' = [gs EXCEPT !.stage = "returned"]
    /\ run' = [run EXCEPT !.time_to_burn = FDiv(gs.left + gs.right, Num(2))]
    /\ pc' = "uni_done"
    /\ UNCHANGED <<cfg, scene, r, prev, event, fed, probe, tw, pid, ev, args, l>>

UniNext == UniEnter \/ UniIterate \/ UniReturn

\* the search runs on without interruption until it returns
UnimodalSpec == UniInit /\ [][UniNext]_vars /\ WF_vars(UniNext)

\* ------------------------------------------------------------------------
\* tune_pid_twiddle with a synthetic convex quadratic cost of the three
\* gains in the place of evaluate_pid_cost.  cfg.synthetic holds the
\* minimizer, the weight of the term that couples the first two gains, the
\* tolerance and the start deltas.
\* ------------------------------------------------------------------------
Square(x) == FMul(x, x)

\* sum of (p[i] - minimum[i])^2, plus coupling * (p[0] - p[1])^2
QuadCost(p) ==
    Square(p[1] - cfg.synthetic.minimum[1])
      + Square(p[2] - cfg.synthetic.minimum[2])
      + Square(p[3] - cfg.synthetic.minimum[3])
      + cfg.synthetic.coupling * Square(p[1] - p[2])

QuadMinima == {<<Num(1), 0 - Num(1), Scale \div 2>>, <<Num(2), Num(2), 0>>, <<0, 0, 0>>}

QuadDeltas ==
    {<<Num(1), Num(1), Num(1)>>, <<Num(10), Num(5), Num(1)>>,
     <<Scale \div 10, Scale \div 10, Scale \div 10>>,
     <<Num(1), Scale \div 100, Num(1)>>,
     <<Num(4), Scale \div 2, Scale \div 4>>}

QuadConfigs ==
    {q \in [minimum : QuadMinima, coupling : {0, 20},
            tolerance : {Scale \div 2, Scale \div 10}, dp : QuadDeltas] :
        q.coupling > 0 => q.minimum[1] = q.minimum[2]}

QuadInit ==
    /\ cfg \in [prog : {"quadratic"}, integrator : {"none"}, altitude : {0},
                 fuel_mass : {0}, dt : {0}, log : {FALSE}, file : {<<>>},
                 synthetic : QuadConfigs]
    /\ pc = "quad_enter"
    /\ scene = [dt |-> 0, time |-> 0, integrator |-> "none"]
    /\ r = start_falling(DryMass, 0, 0, Engine, Planet)
    /\ prev = r
    /\ fed = r
    /\ event = EV_NONE
    /\ gs = GS0
    /\ probe = PROBE0
    /\ tw = TW0
    /\ pid = PID0
    /\ ev = EV0
    /\ run = RUN0
    /\ args = ARGS0
    /\ l = LOGGER0

\* entry: zero gains, the cost of the zero gains is the first best_err
QuadEnter ==
    /\ pc = "quad_enter"
    /\ tw' = [tw EXCEPT !.p = <<0, 0, 0>>, !.dp = Doubles(cfg.synthetic.dp), !.i = 0,
                        !.best_err = QuadCost(<<0, 0, 0>>), !.stage = "loop",
                        !.sweeps = 0]
    /\ pc' = "quad_loop"
    /\ UNCHANGED <<cfg, scene, r, prev, event, fed, gs, probe, pid, ev, run, args, l>>

\* loop test passed: start a sweep at coordinate 0
QuadSweep ==
    /\ pc = "quad_loop"
    /\ SumDp(tw.dp) > cfg.synthetic.tolerance
    /\ tw.sweeps < MaxQuadSweeps
    /\ tw' = [tw EXCEPT !.i = 0, !.sweeps = @ + 1]
    /\ pc' = "quad_coord"
    /\ UNCHANGED <<cfg, scene, r, prev, event, fed, gs, probe, pid, ev, run, args, l>>

\* the second evaluation of a coordinate, when the first did not improve
QuadAfterJudge(t, err) == IF t.stage = "minus" THEN TwJudgeMinus(t, err) ELSE t

\* the body of the for loop for coordinate i: the cost of p[i] + dp[i],
\* then, if that is no better, the cost of p[i] - dp[i] (the record of the
\* evaluations made is not kept in these runs)
QuadCoord ==
    /\ pc = "quad_coord"
    /\ \E plus \in {TwPlus(tw)} :
         \E err \in {QuadCost(plus.p)} :
           \E judged \in {TwJudgePlus(plus, err)} :
             \E err2 \in {QuadCost(judged.p)} :
               tw' = [QuadAfterJudge(judged, err2) EXCEPT !.evals = <<>>]
    /\ pc' = IF tw.i = 2 THEN "quad_loop" ELSE "quad_coord"
    /\ UNCHANGED <<cfg, scene, r, prev, event, fed, gs, probe, pid, ev, run, args, l>>

\* loop exit: return the controller with the gains p
QuadReturn ==
    /\ pc = "quad_loop"
    /\ ~(SumDp(tw.dp) > cfg.synthetic.tolerance)
    /\ pid' = WithGains(pid, tw.p)
    /\ tw' = [tw EXCEPT !.stage = "returned"]
    /\ pc' = "quad_done"
    /\ UNCHANGED <<cfg, scene, r, prev, event, fed, gs, probe, ev, run, args, l>>

QuadNext == QuadEnter \/ QuadSweep \/ QuadCoord \/ QuadReturn

\* the tuner runs on without interruption until it returns
QuadSpec == QuadInit /\ [][QuadNext]_vars /\ WF_vars(QuadNext)

\* ------------------------------------------------------------------------
\* The integrators on their own, with a force model that returns (0, 0, 0)
\* handed to them in the place of calculate_forces: a rocket coasting at
\* velocity v for up to CoastSteps steps.
\* ------------------------------------------------------------------------
CoastSpeeds == {0 - Num(3), 0, (3 * Scale) \div 2, Scale \div 8}

CoastVelocities == {Vec(x, y, z) : x \in CoastSpeeds, y \in {0, Num(1)}, z \in CoastSpeeds}

CoastStarts == {VEC3_ZERO, Vec(Num(1), 0 - Num(2), Num(8))}

CoastDts == Steps \cup {Num(1), Scale \div 4}

CoastRockets ==
    {[start_falling(DryMass, fuel, 0, Engine, Planet)
        EXCEPT !.coords = c, !.velocity = v, !.thrust_percent = t] :
        fuel \in {0, (3 * Scale) \div 2}, c \in CoastStarts,
        v \in CoastVelocities, t \in {0, Scale}}

CoastInit ==
    /\ cfg = [prog |-> "coast", integrator |-> "none", altitude |-> 0,
              fuel_mass |-> 0, dt |-> 0, log |-> FALSE, file |-> <<>>, synthetic |-> 0]
    /\ pc = "coast"
    /\ scene \in [dt : CoastDts, time : {0}, integrator : Integrators]
    /\ r \in CoastRockets
    /\ prev = r
    /\ fed = r
    /\ event = EV_NONE
    /\ gs = GS0
    /\ probe = PROBE0
    /\ tw = TW0
    /\ pid = PID0
    /\ ev = EV0
    /\ run = RUN0
    /\ args = ARGS0
    /\ l = LOGGER0

\* scene->integrator(scene, UP, zero_forces); prev is the state before it
CoastStep ==
    /\ pc = "coast"
    /\ run.it < CoastSteps
    /\ prev' = r
    /\ r' = Integrate(scene.integrator, r, scene.dt, UP, "zero_forces")
    /\ run' = [run EXCEPT !.it = @ + 1]
    /\ UNCHANGED <<cfg, pc, scene, event, fed, gs, probe, tw, pid, ev, args, l>>

CoastNext == CoastStep

CoastSpec == CoastInit /\ [][CoastNext]_vars

\* ------------------------------------------------------------------------
\* Powered steps: every integrator from the same start states, with the
\* forces of the rocket
\* ------------------------------------------------------------------------
BurnFuels == {0, Scale \div 20, (3 * Scale) \div 10, (3 * Scale) \div 2}

BurnThrottles == {0, Scale \div 2, Scale}

BurnCommands == {UP, VEC3_ZERO}

BurnRockets ==
    {[start_falling(DryMass, fuel, height, Engine, Planet)
        EXCEPT !.velocity = Vec(0, 0, vz), !.thrust_percent = t] :
        fuel \in BurnFuels, height \in {Num(2), Num(6)},
        vz \in {0, 0 - Num(3)}, t \in BurnThrottles}

BurnInit ==
    /\ cfg = [prog |-> "burn", integrator |-> "none", altitude |-> 0,
              fuel_mass |-> 0, dt |-> 0, log |-> FALSE, file |-> <<>>, synthetic |-> 0]
    /\ pc = "burn"
    /\ scene \in [dt : Steps, time : {0}, integrator : Integrators]
    /\ r \in BurnRockets
    /\ prev = r
    /\ fed = r
    /\ event = EV_NONE
    /\ gs = GS0
    /\ probe = PROBE0
    /\ tw = TW0
    /\ pid = PID0
    /\ ev = EV0
    /\ run = RUN0
    /\ args = ARGS0
    /\ l = LOGGER0

\* scene->integrator(scene, new_directions, calculate_forces); prev is the
\* state before the call, fed the same with the orientation commanded
BurnStep ==
    /\ pc = "burn"
    /\ run.it < CoastSteps
    /\ prev' = r
    /\ \E new_directions \in BurnCommands :
          /\ fed' = [r EXCEPT !.directions = new_directions]
          /\ r' = Integrate(scene.integrator, r, scene.dt, new_directions,
                            "calculate_forces")
    /\ run' = [run EXCEPT !.it = @ + 1]
    /\ UNCHANGED <<cfg, pc, scene, event, gs, probe, tw, pid, ev, args, l>>

BurnNext == BurnStep

BurnSpec == BurnInit /\ [][BurnNext]_vars

\* ------------------------------------------------------------------------
\* main of pid.c up to the delta-v check, on rocket files whose sections
\* pid_weights and pid_start_values hold every choice of their keys: a key
\* is absent, 0, or one of two non-zero values; also files with a line that
\* is no "name = value", with keys before any section, with a section
\* written twice, and with a key under the section of the other triple.
\* ------------------------------------------------------------------------
KeyLines(name, values) == {<<>>} \cup {<<VarLine(name, v)>> : v \in values}

WeightValues == {0, Scale \div 2}
DeltaValues == {0, Num(2)}

SectionFiles(section_name, k1, k2, k3, values) ==
    {<<SectionLine(section_name)>> \o a \o b \o c :
        a \in KeyLines(k1, values), b \in KeyLines(k2, values), c \in KeyLines(k3, values)}

OddFiles ==
    {<<VarLine("velocity", Scale), SectionLine("pid_weights"), OtherLine,
       VarLine("fuel", Scale \div 2)>>,
     <<SectionLine("pid_weights"), VarLine("altitude", 0),
       SectionLine("pid_start_values"), VarLine("K_i", Num(3)),
       SectionLine("pid_weights"), VarLine("velocity", Num(2)), VarLine("altitude", Num(4))>>,
     <<SectionLine("pid_weights"), VarLine("K_p", Num(7)), VarLine("velocity", 0),
       SectionLine("pid_start_values"), VarLine("fuel", Num(1)), VarLine("K_d", 0)>>,
     <<SectionLine("rocket"), VarLine("velocity", Num(1)), VarLine("K_p", Num(1))>>,
     <<SectionLine("pid_weights"), VarLine("fuel", 0), VarLine("fuel", Num(1))>>}

ParseFiles ==
    {w \o d : w \in SectionFiles("pid_weights", "velocity", "altitude", "fuel", WeightValues),
              d \in SectionFiles("pid_start_values", "K_p", "K_i", "K_d", DeltaValues)}
      \cup OddFiles

ParseInit ==
    /\ cfg \in [prog : {"pid"}, integrator : {"rk4"}, altitude : {Num(8)},
                 fuel_mass : {0, (3 * Scale) \div 2}, dt : {(6 * Scale) \div 10},
                 log : {FALSE}, file : ParseFiles, synthetic : {0}]
    /\ pc = "main"
    /\ scene = [dt |-> 0, time |-> 0, integrator |-> "none"]
    /\ r = start_falling(DryMass, cfg.fuel_mass, cfg.altitude, Engine, Planet)
    /\ prev = r
    /\ fed = r
    /\ event = EV_NONE
    /\ gs = GS0
    /\ probe = PROBE0
    /\ tw = TW0
    /\ pid = PID0
    /\ ev = EV0
    /\ run = RUN0
    /\ args = ARGS0
    /\ l = LOGGER0

\* main as far as the call of pid_landing_simulation
ParseNext == MainRejects \/ MainStarts

ParseSpec == ParseInit /\ [][ParseNext]_vars

\* ------------------------------------------------------------------------
\* A caller of logger.c: logger_init, then any calls of logger_write_rocket,
\* logger_write_pid, logger_flush and logger_free in any order, through a
\* pointer to the logger or a null pointer, with an object or a null
\* object, until the file holds MaxRows rows.
\* ------------------------------------------------------------------------
LoggerPointers == {"NULL", "l"}
LoggedRockets ==
    {NullObject} \cup
    {[start_falling(DryMass, Num(1), Num(8), Engine, Planet) EXCEPT !.time = t] :
        t \in {0, Num(1)}}
LoggedPids == {NullObject, PID0}

LoggerStart ==
    /\ cfg \in [prog : {"logger"}, integrator : {"none"}, altitude : {0},
                 fuel_mass : {0}, dt : {0}, log : {TRUE},
                 file : {<<>>}, synthetic : {0}]
    /\ pc = "logger_init"
    /\ scene = NoScene
    /\ r = NoRocket
    /\ prev = r
    /\ fed = r
    /\ event = EV_NONE
    /\ gs = GS0
    /\ probe = PROBE0
    /\ tw = TW0
    /\ pid = PID0
    /\ ev = EV0
    /\ run = RUN0
    /\ args = ARGS0
    /\ l = LOGGER0

LoggerIdle == UNCHANGED <<cfg, scene, r, prev, event, fed, gs, probe, tw, pid, ev, run, args>>

\* l = logger_init(filename): the file is opened, or it is not and the
\* logger comes back zeroed
LoggerInit ==
    /\ pc = "logger_init"
    /\ \E filename \in {"NULL", "flight.csv"} :
           l' \in {logger_init(filename), LOGGER0}
    /\ pc' = "logger"
    /\ LoggerIdle

LoggerCalled == pc = "logger" /\ ~l.fault /\ Len(l.rows) < MaxRows /\ pc' = pc /\ LoggerIdle

LoggerWriteRocket(lp, rr) ==
    LoggerCalled /\ l' \in ThroughPointer(lp, l, {logger_write_rocket(l, rr)})

LoggerWritePid(lp, c) ==
    LoggerCalled /\ l' \in ThroughPointer(lp, l, logger_write_pid(l, c))

LoggerFlush(lp) ==
    LoggerCalled /\ l' \in ThroughPointer(lp, l, {logger_flush(l)})

LoggerFree(lp) ==
    LoggerCalled /\ l' \in ThroughPointer(lp, l, {logger_free(l)})

LoggerNext ==
    \/ LoggerInit
    \/ \E lp \in LoggerPointers, rr \in LoggedRockets : LoggerWriteRocket(lp, rr)
    \/ \E lp \in LoggerPointers, c \in LoggedPids : LoggerWritePid(lp, c)
    \/ \E lp \in LoggerPointers : LoggerFlush(lp)
    \/ \E lp \in LoggerPointers : LoggerFree(lp)

LoggerSpec == LoggerStart /\ [][LoggerNext]_vars

\* ------------------------------------------------------------------------
\* main of pid.c on rocket files that reach the limits of fparser.h: up to
\* MAX_SECTIONS + 1 section headers, or one section of up to MAX_VARS + 1
\* variables, then up to MaxTail lines of any kind.  Each variable line
\* carries its line number as its value.
\* ------------------------------------------------------------------------
Header(k) == SectionLine("s" \o ToString(k))
Headers(k) == [i \in 1..k |-> Header(i)]
VarLines(n) == [i \in 1..n |-> VarLine("v", 0)]
TailLines == {Header(0), BadSectionLine, VarLine("w", 0), OtherLine}
Tails == UNION {[1..n -> TailLines] : n \in 0..MaxTail}

Numbered(lines) ==
    [i \in DOMAIN lines |->
        IF lines[i].kind = "var" THEN [lines[i] EXCEPT !.value = i] ELSE lines[i]]

LimitHeads ==
    {Headers(k) : k \in {0, 1, MAX_SECTIONS - 1, MAX_SECTIONS, MAX_SECTIONS + 1}}
      \cup {<<Header(1)>> \o VarLines(n) : n \in {MAX_VARS - 1, MAX_VARS, MAX_VARS + 1}}

LimitFiles == {Numbered(h \o t) : h \in LimitHeads, t \in Tails}

LimitInit ==
    /\ cfg \in [prog : {"pid"}, integrator : {"rk4"}, altitude : {Num(8)},
                 fuel_mass : {0, (3 * Scale) \div 2}, dt : {(6 * Scale) \div 10},
                 log : {FALSE}, file : LimitFiles, synthetic : {0}]
    /\ pc = "main"
    /\ scene = [dt |-> 0, time |-> 0, integrator |-> "none"]
    /\ r = start_falling(DryMass, cfg.fuel_mass, cfg.altitude, Engine, Planet)
    /\ prev = r
    /\ fed = r
    /\ event = EV_NONE
    /\ gs = GS0
    /\ probe = PROBE0
    /\ tw = TW0
    /\ pid = PID0
    /\ ev = EV0
    /\ run = RUN0
    /\ args = ARGS0
    /\ l = LOGGER0

LimitSpec == LimitInit /\ [][ParseNext]_vars

\* ------------------------------------------------------------------------
\* velocity_at_landing(scene, t), then the loop of hoverslam_simulation run
\* with time_to_burn = t from the same baseline: the two executions of the
\* same flight the optimizer relies on, for ignition times t between 0 and
\* the end of the free fall.
\* ------------------------------------------------------------------------
AgreeTimes == {0, Scale \div 2, Num(1), (3 * Scale) \div 2, Num(2), Num(3)}

AgreeInit ==
    /\ cfg \in [prog : {"hoverslam"}, integrator : Integrators,
                 altitude : Altitudes \ {0}, fuel_mass : FuelMasses, dt : Steps,
                 log : {FALSE}, file : {<<>>}, synthetic : AgreeTimes]
    /\ pc = "agree_enter"
    /\ scene = [dt |-> cfg.dt, time |-> 0, integrator |-> cfg.integrator]
    /\ r = start_falling(DryMass, cfg.fuel_mass, cfg.altitude, Engine, Planet)
    /\ prev = r
    /\ fed = r
    /\ event = EV_NONE
    /\ gs = GS0
    /\ probe = PROBE0
    /\ tw = TW0
    /\ pid = PID0
    /\ ev = EV0
    /\ run = RUN0
    /\ args = ARGS0
    /\ l = LOGGER0

\* the baseline is saved as golden_search_hoverslam saves it, and
\* velocity_at_landing is called with ignition time t
AgreeEnter ==
    /\ pc = "agree_enter"
    /\ gs' = [gs EXCEPT !.r = r, !.time = scene.time, !.dt = scene.dt]
    /\ probe' = [PROBE0 EXCEPT !.ignition_time = cfg.synthetic]
    /\ pc' = "probe"
    /\ UNCHANGED <<cfg, scene, r, prev, event, fed, tw, pid, ev, run, args, l>>

\* the probe has returned: the baseline is restored as golden_search_hoverslam
\* restores it before it returns, and the loop of hoverslam_simulation is
\* entered with time_to_burn = t
AgreeCommit ==
    /\ pc = "gs_ret"
    /\ scene' = GsRestoredScene
    /\ r' = GsRestoredRocket
    /\ run' = [run EXCEPT !.time_to_burn = probe.ignition_time, !.it = 0]
    /\ event' = EV_NONE
    /\ pc' = "commit"
    /\ UNCHANGED <<cfg, prev, fed, gs, probe, tw, pid, ev, args, l>>

AgreeNext ==
    \/ AgreeEnter \/ ProbeStep \/ ProbeEnd
    \/ AgreeCommit \/ CommitStep \/ CommitEnd

AgreeSpec == AgreeInit /\ [][AgreeNext]_vars

\* ------------------------------------------------------------------------
\* Properties
\* ------------------------------------------------------------------------
\* the program is inside a run-to-completion loop, before an iteration
StepPcs == {"probe", "commit", "eval", "pid_commit"}
\* the loop was left and the interpolator is about to be called
EndPcs == {"probe_end", "commit_end", "eval_end", "pid_commit_end"}
\* the interpolator has returned
AfterPcs == {"gs_ret", "done", "tw_ret"}

\* C1 (as amended): fuel_mass >= 0 in every state; an integrator step never
\* increases fuel_mass; hoverslam_event_interpolator leaves fuel_mass between
\* the value after the last step and the value before it, so it may raise
\* the value the last step left but never above the fuel before that step.
C1_FuelBounded ==
    /\ [](r.fuel_mass >= 0)
    /\ [][(pc \in StepPcs) => (r'.fuel_mass <= r.fuel_mass)]_vars
    /\ [][(pc \in EndPcs) => (r.fuel_mass <= r'.fuel_mass /\ r'.fuel_mass <= prev.fuel_mass)]_vars

\* C1 witness: a run ended on the ground after a burning last step, and the
\* interpolated fuel is strictly between zero and the fuel before that step
C1_Witness ==
    /\ pc \in AfterPcs
    /\ event = EV_GROUND_CONTACT
    /\ fed.thrust_percent > 0
    /\ r.fuel_mass > 0
    /\ r.fuel_mass < prev.fuel_mass

\* C1 as stated: fuel_mass never increases from one state of a run to the
\* next, the interpolated state included
C1_NeverIncreases ==
    [][(pc \in StepPcs \cup EndPcs) => (r'.fuel_mass <= r.fuel_mass)]_vars

\* the program is in a committed run (hoverslam_simulation or
\* pid_landing_simulation), after at least one step of it
CommittedPcs == {"commit", "commit_end", "pid_commit", "pid_commit_end"}
InCommitted == pc \in CommittedPcs /\ run.it > 0

\* the program is in a run-to-completion loop after at least one step of it:
\* r is the state the integrator (and the detector) left
Stepped == pc \in StepPcs \cup EndPcs /\ r.time > 0

\* C2 as stated: every state an integrator step produces with fuel_mass = 0
\* has thrust_percent = 0, and no step of a committed run computes forces
\* with thrust_percent > 0 at fuel_mass = 0.
C2_ZeroFuelZeroThrust ==
    /\ (Stepped /\ r.fuel_mass = 0) => r.thrust_percent = 0
    /\ InCommitted => ~(fed.fuel_mass = 0 /\ fed.thrust_percent > 0)

\* C2 failing state: a step of the committed hoverslam run under RK4, started
\* from a positive altitude, burnt the tank down to exactly 0 and left the
\* engine at full thrust
C2_ThrustOnEmptyTank ==
    /\ pc \in {"commit", "commit_end"} /\ run.it > 0
    /\ cfg.integrator = "rk4" /\ cfg.altitude > 0
    /\ prev.fuel_mass > 0
    /\ r.fuel_mass = 0
    /\ r.thrust_percent = Num(1)

\* the output of the last pid_calculate_thrust call, from the terms it stored
PidOutput ==
    FDiv(MAX(0, MIN(pid.P + pid.I + pid.D, fed.engine.thrust)), fed.engine.thrust)

\* C3: thrust_percent is in [0, 1] in every state, also in the state handed
\* to the integrator; the hoverslam program only ever has it at 0 or 1; a
\* step of a PID driver is taken with min(1, output) when the output is > 0
\* and fuel remains, and with 0 otherwise.
C3_ThrottleInRange ==
    /\ 0 <= r.thrust_percent /\ r.thrust_percent <= Num(1)
    /\ 0 <= fed.thrust_percent /\ fed.thrust_percent <= Num(1)
    /\ cfg.prog = "hoverslam" =>
          r.thrust_percent \in {0, Num(1)} /\ fed.thrust_percent \in {0, Num(1)}
    /\ (cfg.prog = "pid" /\ Stepped) =>
          fed.thrust_percent = IF PidOutput > 0 /\ fed.fuel_mass > 0
                               THEN MIN(Num(1), PidOutput) ELSE 0

\* C3 witness: a PID step taken with a negative gain and a throttle strictly
\* between 0 and 1
C3_Witness ==
    /\ cfg.prog = "pid" /\ Stepped
    /\ (pid.K_p < 0 \/ pid.K_i < 0 \/ pid.K_d < 0)
    /\ 0 < fed.thrust_percent /\ fed.thrust_percent < Num(1)

\* C4: on every pair (current, previous) the detector returns GroundContact
\* iff current.z <= 0 and previous.z > 0; otherwise Unstable iff
\* current.velocity.z > 0 and current.time > 1.0 strictly; otherwise None.
\* It changes nothing of the current state, except that on Unstable it sets
\* velocity.z to +infinity.  (fed is the current state as handed in.)
C4_DetectorClassifies ==
    pc = "interpolate" =>
        /\ event = EV_GROUND_CONTACT <=> (fed.coords.z <= 0 /\ prev.coords.z > 0)
        /\ event = EV_UNSTABLE <=>
              /\ ~(fed.coords.z <= 0 /\ prev.coords.z > 0)
              /\ fed.velocity.z > 0 /\ fed.time > Num(1)
        /\ event \in {EV_GROUND_CONTACT, EV_UNSTABLE, EV_NONE}
        /\ event = EV_UNSTABLE => r = [fed EXCEPT !.velocity.z = INFINITY]
        /\ event # EV_UNSTABLE => r = fed

\* C4 witness: both conditions hold and GroundContact was returned
C4_Witness ==
    /\ pc = "interpolate"
    /\ fed.coords.z <= 0 /\ prev.coords.z > 0
    /\ fed.velocity.z > 0 /\ fed.time > Num(1)
    /\ event = EV_GROUND_CONTACT
    /\ r = fed

\* C4 second case: a rising state at time exactly 1.0 is not Unstable
C4_AtOneSecond ==
    /\ pc = "interpolate"
    /\ fed.velocity.z > 0 /\ fed.time = Num(1) /\ fed.coords.z > 0
    /\ event = EV_NONE

C6Alpha == FDiv(prev.coords.z, prev.coords.z - fed.coords.z)

\* C6: for previous.z > 0 and current.z <= 0 the interpolator, called with
\* GroundContact, uses alpha = previous.z / (previous.z - current.z) in
\* [0, 1], sets time, x, y, velocity.x, velocity.y, velocity.z and fuel_mass
\* to previous + alpha * (current - previous), sets z to exactly 0 and
\* leaves every other field as it was.  (fed is the current state handed in,
\* one step of scene.dt after previous.)
C6_InterpolatesLinearly ==
    (pc = "interpolated" /\ event = EV_GROUND_CONTACT) =>
        /\ prev.coords.z > 0 /\ fed.coords.z <= 0
        /\ 0 <= C6Alpha /\ C6Alpha <= Num(1)
        /\ r.time = prev.time + FMul(C6Alpha, fed.time - prev.time)
        /\ r.coords.x = prev.coords.x + FMul(C6Alpha, fed.coords.x - prev.coords.x)
        /\ r.coords.y = prev.coords.y + FMul(C6Alpha, fed.coords.y - prev.coords.y)
        /\ r.velocity.x = prev.velocity.x + FMul(C6Alpha, fed.velocity.x - prev.velocity.x)
        /\ r.velocity.y = prev.velocity.y + FMul(C6Alpha, fed.velocity.y - prev.velocity.y)
        /\ r.velocity.z = prev.velocity.z + FMul(C6Alpha, fed.velocity.z - prev.velocity.z)
        /\ r.fuel_mass = prev.fuel_mass + FMul(C6Alpha, fed.fuel_mass - prev.fuel_mass)
        /\ r.coords.z = 0
        /\ [r EXCEPT !.time = 0, !.coords = 0, !.velocity = 0, !.fuel_mass = 0]
             = [fed EXCEPT !.time = 0, !.coords = 0, !.velocity = 0, !.fuel_mass = 0]

\* C6 witness: previous.z = 1, current.z = -1, and the interpolated state is
\* the exact midpoint of the two states, at z = 0
C6_Witness ==
    /\ pc = "interpolated" /\ event = EV_GROUND_CONTACT
    /\ prev.coords.z = Num(1) /\ fed.coords.z = 0 - Num(1)
    /\ fed.fuel_mass < prev.fuel_mass /\ fed.velocity.z # prev.velocity.z
    /\ 2 * r.time = prev.time + fed.time
    /\ 2 * r.coords.x = prev.coords.x + fed.coords.x
    /\ 2 * r.velocity.x = prev.velocity.x + fed.velocity.x
    /\ 2 * r.velocity.z = prev.velocity.z + fed.velocity.z
    /\ 2 * r.fuel_mass = prev.fuel_mass + fed.fuel_mass
    /\ r.coords.z = 0

\* an iteration of the golden-section loop is about to run with exactly one
\* of the two interior values infinite
OneInfinite ==
    /\ pc \in {"gs_loop", "bracket"} /\ gs.right - gs.left > Eps
    /\ (gs.f_m1 = INFINITY) # (gs.f_m2 = INFINITY)

\* C7: a probe that ends Unstable is not interpolated: the interpolator
\* leaves the state exactly as the step and the detector left it, with
\* velocity.z = +infinity, and velocity_at_landing returns +infinity.  In the
\* search, when exactly one interior value is +infinity, the iteration
\* discards the sub-bracket on the side of the infinite probe: (m2, right]
\* when f_m2 is infinite, [left, m1) when f_m1 is, and the value it keeps is
\* the finite one.
C7_UnstableNeverPreferred ==
    /\ [][(pc = "probe_end" /\ event = EV_UNSTABLE) =>
            (r' = r /\ r.velocity.z = INFINITY /\ probe'.result = INFINITY)]_vars
    /\ [][(OneInfinite /\ gs.f_m2 = INFINITY) =>
            (gs'.right = gs.m2 /\ gs'.left = gs.left /\ gs'.f_m2 = gs.f_m1
             /\ gs'.dropped = INFINITY)]_vars
    /\ [][(OneInfinite /\ gs.f_m1 = INFINITY) =>
            (gs'.left = gs.m1 /\ gs'.right = gs.right /\ gs'.f_m1 = gs.f_m2
             /\ gs'.dropped = INFINITY)]_vars

\* C7 witness: an iteration has just dropped the infinite value of the
\* Unstable probe at m1 and kept the finite one, moving the left end of the
\* bracket to that probe
C7_Witness ==
    /\ pc = "probe" /\ gs.stage = "iter_m2"
    /\ gs.dropped = INFINITY
    /\ gs.f_m1 < INFINITY
    /\ gs.left > 0

\* C7, the other side: the infinite value was at m2
C7_WitnessRight ==
    /\ pc = "bracket_done" /\ gs.stage = "iter_m1"
    /\ gs.dropped = INFINITY
    /\ gs.f_m2 < INFINITY

\* C8 as stated: evaluate_pid_cost returns +infinity whenever its run ends
\* Unstable, for every accepted weights vector, a zero velocity weight
\* included.
C8_UnstableCostInfinite ==
    (pc = "tw_ret" /\ event = EV_UNSTABLE) => ev.cost = INFINITY

\* C8 failing state: an evaluation ended Unstable under a weights vector with
\* velocity weight 0 and returned NaN (0 * infinity)
C8_NaNCost ==
    /\ pc = "tw_ret" /\ event = EV_UNSTABLE
    /\ args.weights[1] = 0 /\ args.weights[2] > 0
    /\ r.velocity.z = INFINITY
    /\ ev.cost = NaN

\* a step of velocity_at_landing has been taken; fed is the state its
\* forces were computed from
ProbeStepped == pc \in {"probe", "probe_end"} /\ r.time > 0

\* C9 as stated: in velocity_at_landing full thrust is commanded only where
\* fuel remains: no step of a probe computes forces with thrust_percent > 0
\* while fuel_mass = 0.
C9_NoThrustWithoutFuel ==
    ProbeStepped => ~(fed.thrust_percent > 0 /\ fed.fuel_mass = 0)

\* C9 failing state: the integrator had shut the engine down on an empty
\* tank, and the next iteration of the probe commanded full thrust again
C9_ReignitedOnEmptyTank ==
    /\ ProbeStepped
    /\ cfg.integrator = "rk4" /\ cfg.altitude > 0
    /\ cfg.fuel_mass % cfg.dt # 0
    /\ fed.fuel_mass = 0
    /\ fed.thrust_percent = Num(1)

\* the rocket, as main() built it, that the search is entered with
EntryRocket == start_falling(DryMass, cfg.fuel_mass, cfg.altitude, Engine, Planet)

\* the rocket, the scene clock and the step are as at entry to the search
AtEntryValues(rr, sc) == rr = EntryRocket /\ sc.time = 0 /\ sc.dt = cfg.dt

\* C10: every call of the objective by golden_search_hoverslam (the two
\* initial probes and the one of each iteration) starts from the rocket
\* state, scene time and dt of the entry to the search, and when the search
\* returns they have their entry values again.
C10_BaselineRestored ==
    /\ [][(pc # "probe" /\ pc' = "probe") => AtEntryValues(r', scene')]_vars
    /\ [][(pc = "gs_loop" /\ pc' = "commit") => AtEntryValues(r', scene')]_vars
    /\ [](gs.stage # "none" => (gs.r = EntryRocket /\ gs.time = 0 /\ gs.dt = cfg.dt))

\* C10 witness: a probe of a loop iteration is about to start from the entry
\* values, after the probe before it had run the rocket to the end of a
\* flight (prev is the last state that probe stepped from)
C10_Witness ==
    /\ pc = "probe" /\ gs.iters >= 1
    /\ AtEntryValues(r, scene)
    /\ prev.time > 0 /\ prev.coords.z < r.coords.z
    /\ prev.fuel_mass < r.fuel_mass

\* C10, the return: the committed run is about to start from the entry values
C10_Returned ==
    /\ pc = "commit" /\ run.it = 0 /\ gs.stage = "returned"
    /\ AtEntryValues(r, scene)
    /\ prev.time > 0

\* C11: every evaluation made by tune_pid_twiddle starts with the rocket
\* equal to the baseline, the clock of its scene at the entry value and
\* integral = 0, prev_err = 0, whatever evaluations ran before; two
\* evaluations with the same gains return the same cost; when
\* tune_pid_twiddle returns the rocket equals the baseline and the committed
\* run starts with integral = 0 and prev_err = 0.
C11_EvaluationsIsolated ==
    /\ [][(pc # "eval" /\ pc' = "eval") =>
            (/\ r' = EntryRocket /\ ev'.scene.time = 0 /\ ev'.scene.dt = cfg.dt
             /\ pid'.integral = 0 /\ pid'.prev_err = 0
             /\ pid'.K_p = tw'.p[1] /\ pid'.K_i = tw'.p[2] /\ pid'.K_d = tw'.p[3])]_vars
    /\ [](\A i, j \in DOMAIN tw.evals :
             tw.evals[i].p = tw.evals[j].p => tw.evals[i].cost = tw.evals[j].cost)
    /\ [][(pc = "tw_loop" /\ pc' = "pid_commit") =>
            (r' = EntryRocket /\ scene'.time = 0
             /\ pid'.integral = 0 /\ pid'.prev_err = 0)]_vars

\* C11 witness: the same non-zero gains were evaluated twice, the second
\* time after the first had flown the rocket to the end of its run; both
\* returned the same finite cost, which is not the cost of the zero gains
C11_Witness ==
    \E i, j \in DOMAIN tw.evals :
        /\ i < j
        /\ tw.evals[i].p = tw.evals[j].p
        /\ tw.evals[i].p # <<0, 0, 0>>
        /\ tw.evals[i].cost = tw.evals[j].cost
        /\ tw.evals[i].cost # tw.evals[1].cost
        /\ tw.evals[i].cost > 0 /\ tw.evals[i].cost < INFINITY

\* t_free_fall = sqrt(2 * z0 / g0) of the baseline
TFreeFall == sqrt(FDiv(FMul(EntryRocket.coords.z, Num(2)), calculate_g(EntryRocket)))

\* C12: the search starts from the bracket [0, t_free_fall] computed from the
\* baseline; every loop head satisfies
\* 0 <= left <= m1 <= m2 <= right <= t_free_fall; the bracket of each
\* iteration is contained in the one before; the loop exits exactly when
\* right - left <= eps, and the value returned is (left + right) / 2 of the
\* final bracket.
C12_BracketInvariant ==
    /\ [][(pc = "gs_enter") => (gs'.left = 0 /\ gs'.right = TFreeFall)]_vars
    /\ [](pc = "gs_loop" =>
             (/\ 0 <= gs.left /\ gs.left <= gs.m1 /\ gs.m1 <= gs.m2
              /\ gs.m2 <= gs.right /\ gs.right <= TFreeFall))
    /\ [][(pc = "gs_loop" /\ pc' = "probe") =>
            (gs.left <= gs'.left /\ gs'.right <= gs.right
             /\ gs'.right - gs'.left < gs.right - gs.left)]_vars
    /\ [][(pc = "gs_loop") => ((pc' = "commit") <=> (gs.right - gs.left <= Eps))]_vars
    /\ [][(pc = "gs_loop" /\ pc' = "commit") =>
            (/\ gs'.left = gs.left /\ gs'.right = gs.right
             /\ run'.time_to_burn = FDiv(gs.left + gs.right, Num(2))
             /\ gs.left <= run'.time_to_burn /\ run'.time_to_burn <= gs.right)]_vars

\* C12 witness: the search has returned the midpoint of a bracket no wider
\* than eps, after iterations that moved both ends of [0, t_free_fall]
C12_Witness ==
    /\ pc = "commit" /\ gs.stage = "returned" /\ run.it = 0
    /\ gs.iters >= 3
    /\ 0 < gs.left /\ gs.right < TFreeFall
    /\ gs.right - gs.left <= Eps /\ gs.left < gs.right
    /\ gs.left < run.time_to_burn /\ run.time_to_burn < gs.right

\* C13: golden_search_hoverslam applied to f(t) = (t - t*)^2 with t* inside
\* the initial bracket terminates; t* stays inside [left, right] at every
\* iteration, and the value returned is within eps of t*.
C13_UnimodalConverges ==
    /\ [](pc \in {"uni_loop", "uni_done"} =>
             (gs.left <= cfg.synthetic /\ cfg.synthetic <= gs.right))
    /\ [](pc = "uni_done" =>
             (/\ gs.right - gs.left <= Eps
              /\ Abs(run.time_to_burn - cfg.synthetic) <= Eps))
    /\ <>(pc = "uni_done")

\* C13 witness: the search has returned after iterations that moved both
\* ends of the bracket towards a t* strictly inside it
C13_Witness ==
    /\ pc = "uni_done"
    /\ gs.iters >= 4
    /\ gs.left < cfg.synthetic /\ cfg.synthetic < gs.right
    /\ gs.right - gs.left <= Eps
    /\ Abs(run.time_to_burn - cfg.synthetic) <= Eps \div 2

\* the gains of the controller tune_pid_twiddle returned
Gains == <<pid.K_p, pid.K_i, pid.K_d>>

\* gain i of the controller is within the tolerance of the minimizer
NearMinimum(i) == Abs(Gains[i] - cfg.synthetic.minimum[i]) <= cfg.synthetic.tolerance

\* C14 (as amended): on a convex quadratic cost tune_pid_twiddle terminates
\* for every positive initial dp, with dp[0] + dp[1] + dp[2] <= tolerance and
\* a best cost that never went up.  When the initial dp already sums to no
\* more than the tolerance it returns the zero gains it started from.  On a
\* separable cost, sum of (p[i] - c[i])^2, every gain whose step dp[i] was
\* reduced at least once is returned within tolerance of c[i]; a gain whose
\* step was never reduced can be returned anywhere between 0 and c[i].
C14_TwiddleTerminates ==
    /\ <>(pc = "quad_done")
    /\ [][(pc \in {"quad_loop", "quad_coord"}) => (tw'.best_err <= tw.best_err)]_vars
    /\ [](pc = "quad_done" =>
             (/\ SumDp(tw.dp) <= cfg.synthetic.tolerance
              /\ Gains = tw.p
              /\ SumDp(cfg.synthetic.dp) <= cfg.synthetic.tolerance => Gains = <<0, 0, 0>>
              /\ cfg.synthetic.coupling = 0 =>
                    \A i \in 1..3 : (i - 1) \in tw.reduced => NearMinimum(i)))

\* C14 witness: started one unit of dp away from a minimizer away from the
\* origin, the tuner has returned after reducing every step, with every
\* gain within tolerance of the minimizer
C14_Witness ==
    /\ pc = "quad_done"
    /\ cfg.synthetic.coupling = 0
    /\ cfg.synthetic.minimum = <<Num(1), 0 - Num(1), Scale \div 2>>
    /\ cfg.synthetic.tolerance = Scale \div 10
    /\ tw.reduced = {0, 1, 2}
    /\ tw.sweeps >= 10
    /\ \A i \in 1..3 : NearMinimum(i)

\* C14 as stated: for every positive initial dp the gains returned are
\* within tolerance of the minimizer
C14_ReturnsMinimizer ==
    pc = "quad_done" => \A i \in 1..3 : NearMinimum(i)

\* the distance between one coordinate after a step, now, and the same
\* coordinate advanced by exactly speed * dt, was + speed * dt
OffExact(now, was, speed) == Abs(now - (was + FMul(speed, scene.dt)))

\* what rounding dt / 6 once and the product once can cost on a sum of
\* 6 * speed, in units of the arithmetic
Rk4Rounding(speed) == (3 * Abs(speed)) \div Scale + 2

\* C15 (as amended): for dt > 0 and a force model returning (0, 0, 0), one
\* step of any of the three integrators leaves the velocity unchanged and
\* advances the time by exactly dt; RK1 and RK2 advance the position by
\* exactly velocity * dt on each axis; RK4 advances it by
\* (dt / 6) * (v + 2v + 2v + v), which is velocity * dt only up to the
\* rounding of dt / 6 and of the product.
C15_CoastStep ==
    [][(pc = "coast") =>
         (/\ r'.velocity = r.velocity
          /\ r'.time = r.time + scene.dt
          /\ scene.integrator \in {"rk1", "rk2"} =>
                r'.coords = VAxpy(r.coords, r.velocity, scene.dt)
          /\ scene.integrator = "rk4" =>
                /\ OffExact(r'.coords.x, r.coords.x, r.velocity.x) <= Rk4Rounding(r.velocity.x)
                /\ OffExact(r'.coords.y, r.coords.y, r.velocity.y) <= Rk4Rounding(r.velocity.y)
                /\ OffExact(r'.coords.z, r.coords.z, r.velocity.z) <= Rk4Rounding(r.velocity.z))]_vars

\* C15 witness: an RK4 step has moved a coasting rocket along x and z, off
\* the exact velocity * dt on z and within the rounding of it; the velocity
\* is what it was
C15_Witness ==
    /\ pc = "coast"
    /\ run.it >= 1
    /\ scene.integrator = "rk4"
    /\ r.velocity = prev.velocity
    /\ r.velocity.z < 0 /\ r.velocity.x > 0
    /\ r.coords.x # prev.coords.x
    /\ r.time = prev.time + scene.dt
    /\ OffExact(r.coords.z, prev.coords.z, prev.velocity.z) > 0
    /\ OffExact(r.coords.z, prev.coords.z, prev.velocity.z) <= Rk4Rounding(prev.velocity.z)

\* C15 as stated: one step of any of the three integrators advances the
\* position by exactly velocity * dt on each axis
C15_ExactAdvance ==
    [][(pc = "coast") =>
         (/\ r'.coords = VAxpy(r.coords, r.velocity, scene.dt)
          /\ r'.velocity = r.velocity
          /\ r'.time = r.time + scene.dt)]_vars

\* the delta-v of the baseline built from the configuration does not
\* exceed sqrt(2 * g * z), the speed of the free fall from its altitude
DeltaVShort ==
    deltav(EntryRocket)
        <= sqrt(FMul(FMul(Num(2), calculate_g(EntryRocket)), EntryRocket.coords.z))

\* C16: in both programs, when the delta-v check fails for the baseline,
\* the program never leaves main: it ends with a failure status, and no
\* integrator step, optimizer probe, tuner evaluation or log file creation
\* has taken place (rocket, clock, search, tuner and logger are untouched)
C16_RejectedBeforeAnything ==
    DeltaVShort =>
        /\ pc \in {"main", "exit_failure"}
        /\ cfg.prog \in {"hoverslam", "pid"}
        /\ r = EntryRocket /\ prev = EntryRocket
        /\ scene.time = 0
        /\ gs = GS0 /\ probe = PROBE0
        /\ tw = TW0 /\ pid = PID0 /\ ev = EV0
        /\ run = RUN0
        /\ l = LOGGER0

\* C16 witness: the pid program, asked to log, has ended with the failure
\* status for a baseline with fuel on board and too little delta-v; no log
\* file was created
C16_Witness ==
    /\ pc = "exit_failure"
    /\ DeltaVShort
    /\ cfg.prog = "pid" /\ cfg.log
    /\ cfg.fuel_mass > 0 /\ cfg.altitude > 0
    /\ l = LOGGER0
    /\ r.time = 0

\* time x is within the logging tolerance of an integer second under
\* nearest-integer rounding: |x - round(x)| <= 0.01
NearIntegerSecond(x) == Abs(x - round(x)) <= LogTolerance

\* C17: in the committed runs of both programs, when logging is on, the
\* state after a step is written to the logger exactly when its time is
\* within 0.01 s of an integer second under nearest-integer rounding; a
\* time that is exactly an integer second is sampled
C17_SampledNearInteger ==
    [][(pc \in {"commit", "pid_commit"} /\ cfg.log) =>
         (l'.rows = IF NearIntegerSecond(r'.time) THEN Append(l.rows, r') ELSE l.rows)]_vars

\* the name of the section line i of a file stands under: that of the last
\* "[name]" line before it ("" when there is none)
RECURSIVE SectionAt(_, _)
SectionAt(lines, i) ==
    IF i <= 1 THEN ""
    ELSE IF lines[i - 1].kind = "section" THEN lines[i - 1].name
    ELSE SectionAt(lines, i - 1)

\* the lines of a file that give key var_name a value under section_name
KeyLinesOf(lines, section_name, var_name) ==
    {i \in 1..Len(lines) :
        /\ lines[i].kind = "var"
        /\ lines[i].name = var_name
        /\ SectionAt(lines, i) = section_name}

Lowest(S) == CHOOSE i \in S : \A j \in S : i <= j

\* the value a file gives a key: that of its first line for it, 0 without one
FileValue(lines, section_name, var_name) ==
    IF KeyLinesOf(lines, section_name, var_name) = {} THEN 0
    ELSE lines[Lowest(KeyLinesOf(lines, section_name, var_name))].value

FileTriple(lines, section_name, k1, k2, k3) ==
    <<FileValue(lines, section_name, k1), FileValue(lines, section_name, k2),
      FileValue(lines, section_name, k3)>>

SectionNames == {"pid_weights", "pid_start_values", "rocket", "engine"}
VarNames == {"velocity", "altitude", "fuel", "K_p", "K_i", "K_d", "thrust"}

\* C18: fparser_get_var returns the value 0 for every (section, key) the
\* file has no line for; the pid program takes the weights (1, 1, 0.1) if
\* and only if the three weights read are all 0, and the start deltas
\* (10, 5, 1) if and only if the three deltas read are all 0; a triple with
\* a non-zero value is used as read
C18_MissingKeysAndDefaults ==
    pc # "main" =>
        /\ \A s \in SectionNames : \A k \in VarNames :
              KeyLinesOf(cfg.file, s, k) = {}
                  => fparser_get_var(fparser_parse(cfg.file), s, k).value = 0
        /\ args.weights =
              IF FileTriple(cfg.file, "pid_weights", "velocity", "altitude", "fuel") = <<0, 0, 0>>
              THEN <<Num(1), Num(1), Scale \div 10>>
              ELSE FileTriple(cfg.file, "pid_weights", "velocity", "altitude", "fuel")
        /\ args.dp =
              IF FileTriple(cfg.file, "pid_start_values", "K_p", "K_i", "K_d") = <<0, 0, 0>>
              THEN <<Num(10), Num(5), Num(1)>>
              ELSE FileTriple(cfg.file, "pid_start_values", "K_p", "K_i", "K_d")

\* C18 witness: main has read a file that gives the velocity weight 0, no
\* altitude weight, a fuel weight of 0.5, and the deltas K_p = 0 and
\* K_d = 0 only: the weights are used as read, (0, 0, 0.5), and the deltas
\* are the defaults
C18_Witness ==
    /\ pc = "tw_enter"
    /\ KeyLinesOf(cfg.file, "pid_weights", "velocity") # {}
    /\ KeyLinesOf(cfg.file, "pid_weights", "altitude") = {}
    /\ KeyLinesOf(cfg.file, "pid_start_values", "K_i") = {}
    /\ KeyLinesOf(cfg.file, "pid_start_values", "K_p") # {}
    /\ args.weights = <<0, 0, Scale \div 2>>
    /\ args.dp = <<Num(10), Num(5), Num(1)>>

\* C20: for every baseline and every ignition time t, the final state
\* (velocity.z, time, fuel_mass, z) velocity_at_landing(scene, t) produces is
\* the final state the committed loop of hoverslam_simulation produces with
\* time_to_burn = t from the same baseline, and the value the probe returned
\* is the landing speed of the committed run
C20_ProbeAgreesWithRun ==
    pc = "done" =>
        /\ probe.final.velocity.z = run.result.velocity.z
        /\ probe.final.time = run.result.time
        /\ probe.final.fuel_mass = run.result.fuel_mass
        /\ probe.final.coords.z = run.result.coords.z
        /\ probe.result = fabs(run.result.velocity.z)

\* the objective was called at ignition time m and returned value
ReturnedAt(m, value) ==
    \E k \in 1..Len(gs.seen) : gs.seen[k].t = m /\ gs.seen[k].value = value

\* the counts and the cached values of golden_search_hoverslam at a loop
\* head: two calls of the objective before the loop and one per iteration,
\* all at different ignition times, f_m1 the value the objective returned at
\* the current m1 and f_m2 the value it returned at the current m2
EvaluatedOnce ==
        /\ Len(gs.seen) = 2 + gs.iters
        /\ gs.evals = Len(gs.seen)
        /\ \A j, k \in 1..Len(gs.seen) : j # k => gs.seen[j].t # gs.seen[k].t
        /\ ReturnedAt(gs.m1, gs.f_m1)
        /\ ReturnedAt(gs.m2, gs.f_m2)

\* C21 (as amended): from a baseline with altitude > 0, a bracket of
\* positive width, golden_search_hoverslam never evaluates a point twice:
\* two calls of the objective before the loop and one per iteration, and at
\* every loop head f_m1 = f(m1) and f_m2 = f(m2) for the current m1 and m2
C21_NoReevaluationAloft ==
    (pc = "gs_loop" /\ cfg.altitude > 0) => EvaluatedOnce

\* C21 as stated: for every baseline
C21_NoReevaluation ==
    pc = "gs_loop" =>
        /\ Len(gs.seen) = 2 + gs.iters
        /\ gs.evals = Len(gs.seen)
        /\ \A j, k \in 1..Len(gs.seen) : j # k => gs.seen[j].t # gs.seen[k].t
        /\ ReturnedAt(gs.m1, gs.f_m1)
        /\ ReturnedAt(gs.m2, gs.f_m2)

\* C21 witness: a loop head after three iterations, with different finite
\* values at the two interior points, one of them computed two iterations
\* ago or earlier
C21_Witness ==
    /\ pc = "gs_loop"
    /\ cfg.altitude > 0
    /\ gs.iters >= 3
    /\ gs.f_m1 # gs.f_m2 /\ gs.f_m1 < INFINITY /\ gs.f_m2 < INFINITY
    /\ \E k \in 1..(Len(gs.seen) - 2) :
          gs.seen[k].t \in {gs.m1, gs.m2}

\* ------------------------------------------------------------------------
\* The Twiddle rule
\* ------------------------------------------------------------------------
\* the two trial points of the rule for coordinate i of the tuner state t:
\* the original gain plus its step, the original gain minus its step
RuleUp(t) == [t.p EXCEPT ![t.i + 1] = FAdd(@, t.dp[t.i + 1])]
RuleDown(t) == [t.p EXCEPT ![t.i + 1] = FSub(@, t.dp[t.i + 1])]

\* what the rule leaves after the coordinate step on the quadratic cost:
\* the gains, the steps and the best cost
RuleGains(t) ==
    IF FLess(QuadCost(RuleUp(t)), t.best_err) THEN RuleUp(t)
    ELSE IF FLess(QuadCost(RuleDown(t)), t.best_err) THEN RuleDown(t)
    ELSE t.p

RuleSteps(t) ==
    IF \/ FLess(QuadCost(RuleUp(t)), t.best_err)
       \/ FLess(QuadCost(RuleDown(t)), t.best_err)
    THEN [t.dp EXCEPT ![t.i + 1] = Grow(@)]
    ELSE [t.dp EXCEPT ![t.i + 1] = Shrink(@)]

RuleBest(t) ==
    IF FLess(QuadCost(RuleUp(t)), t.best_err) THEN QuadCost(RuleUp(t))
    ELSE IF FLess(QuadCost(RuleDown(t)), t.best_err) THEN QuadCost(RuleDown(t))
    ELSE t.best_err

\* the order of the search: it starts at the zero gains, a sweep starts at
\* K_p and goes on to K_i and K_d, and the tuner returns only from the loop
\* test, with the steps summing to no more than the tolerance
SweepOrder ==
    /\ [][(pc = "quad_enter") => (tw'.p = <<0, 0, 0>>)]_vars
    /\ [][(pc = "quad_loop" /\ pc' = "quad_coord") => (tw'.i = 0)]_vars
    /\ [][(pc = "quad_coord") =>
            (IF tw.i = 2 THEN pc' = "quad_loop"
                         ELSE pc' = "quad_coord" /\ tw'.i = tw.i + 1)]_vars
    /\ [][(pc' = "quad_done") =>
            (pc = "quad_loop" /\ SumDp(tw.dp) <= cfg.synthetic.tolerance)]_vars

\* C22: every coordinate step of tune_pid_twiddle leaves what the Twiddle
\* rule prescribes: p[i] + dp[i] and a step grown by 1.1 when that costs
\* less than best_err, else the original p[i] minus dp[i] and a grown step
\* when that costs less, else the original p[i] and a step shrunk by 0.9;
\* the coordinates go in the order K_p, K_i, K_d from the zero gains, and
\* the exit test is made between full sweeps only
C22_TwiddleRule ==
    /\ SweepOrder
    /\ [][(pc = "quad_coord") =>
            (/\ tw'.p = RuleGains(tw)
             /\ tw'.dp = RuleSteps(tw)
             /\ tw'.best_err = RuleBest(tw))]_vars

\* C22 case: a coordinate step that found no better cost on either side and
\* left a gain that is not the one it started from
C22_RestoreInexact ==
    [][(pc = "quad_coord" /\ tw'.best_err = tw.best_err) => (tw'.p = tw.p)]_vars

\* C23: best_err never increases, and at the start of every coordinate
\* step, at every loop test and at return the cost of the current gains p
\* is best_err, so that the gains returned are those of the best cost
C23_GainsOfBestCost ==
    /\ [][(pc \in {"quad_loop", "quad_coord"}) => (tw'.best_err <= tw.best_err)]_vars
    /\ [](pc \in {"quad_loop", "quad_coord", "quad_done"} =>
             QuadCost(tw.p) = tw.best_err)

\* C23 case: the tuner has returned gains whose cost is above best_err
C23_ReturnedAboveBest ==
    pc = "quad_done" => ~(QuadCost(tw.p) > tw.best_err)

\* ------------------------------------------------------------------------
\* One step of each integrator
\* ------------------------------------------------------------------------
\* the time, the orientation and the fuel a step of dt leaves, from the
\* start state s, under the orientation d: the fuel burnt is that of the
\* throttle at the start of the step
Bookkeeping(s, dt, d) ==
    [time |-> s.time + dt,
     directions |-> d,
     fuel_mass |-> MAX(0, s.fuel_mass
                            - FMul(FMul(s.engine.consumption, s.thrust_percent), dt))]

BookkeepingOf(s) ==
    [time |-> s.time, directions |-> s.directions, fuel_mass |-> s.fuel_mass]

\* C24: from the same start state one step of RK1, of RK2 and of RK4 leave
\* the same time, start time + dt, the same orientation, the commanded one,
\* and the same fuel, max(0, fuel_mass - consumption * thrust_percent * dt)
\* with the thrust_percent of the start of the step
C24_SameBookkeeping ==
    run.it >= 1 =>
        /\ BookkeepingOf(r) = Bookkeeping(prev, scene.dt, fed.directions)
        /\ \A kind \in Integrators :
              BookkeepingOf(Integrate(kind, prev, scene.dt, fed.directions,
                                      "calculate_forces"))
                  = Bookkeeping(prev, scene.dt, fed.directions)

\* C24 witness: a step of RK4 at half throttle that burnt part of the
\* tank, under a commanded orientation other than the one the rocket had
C24_Witness ==
    /\ run.it >= 1
    /\ scene.integrator = "rk4"
    /\ prev.thrust_percent = Scale \div 2
    /\ prev.directions # fed.directions
    /\ 0 < r.fuel_mass /\ r.fuel_mass < prev.fuel_mass
    /\ r.velocity.z # prev.velocity.z

\* the sub-states of one step from the state s (the orientation already
\* commanded): the midpoint probe of RK2 and the three stage states of RK4
Rk2K2(s, dt) == Rk2Midpoint(s, calculate_forces(s), FDiv(dt, Num(2)))
Rk4K2(s, dt) == Rk4Stage(s, s.velocity, calculate_forces(s), FDiv(dt, Num(2)))
Rk4K3(s, dt) ==
    Rk4Stage(s, Rk4K2(s, dt).velocity, calculate_forces(Rk4K2(s, dt)), FDiv(dt, Num(2)))
Rk4K4(s, dt) ==
    Rk4Stage(s, Rk4K3(s, dt).velocity, calculate_forces(Rk4K3(s, dt)), dt)

\* the states calculate_forces is called on during one step
ForceStates(kind, s, dt) ==
    CASE kind = "rk1" -> {[s EXCEPT !.time = @ + dt]}
      [] kind = "rk2" -> {s, Rk2K2(s, dt)}
      [] kind = "rk4" -> {s, Rk4K2(s, dt), Rk4K3(s, dt), Rk4K4(s, dt)}

\* C25: from a start state with dry_mass > 0 and fuel_mass >= 0, every
\* state the forces are evaluated on during a step has fuel_mass >= 0, and
\* so a total mass dry_mass + fuel_mass > 0
C25_ForcesOnFuelledStates ==
    (run.it >= 1 /\ prev.dry_mass > 0 /\ prev.fuel_mass >= 0) =>
        \A s \in ForceStates(scene.integrator, fed, scene.dt) :
            s.fuel_mass >= 0 /\ s.dry_mass + s.fuel_mass > 0

\* C25 for RK1 and RK4 only
C25_ClampedStages ==
    (run.it >= 1 /\ scene.integrator # "rk2") =>
        \A s \in ForceStates(scene.integrator, fed, scene.dt) :
            s.fuel_mass >= 0 /\ s.dry_mass + s.fuel_mass > 0

\* ------------------------------------------------------------------------
\* The controller
\* ------------------------------------------------------------------------
\* the step of the scene whose loop is calling the controller
CallDt == IF pc = "eval" THEN ev.scene.dt ELSE scene.dt

\* sum of errs[k] * dt over the first n errors
RECURSIVE SumErrDt(_, _, _)
SumErrDt(errs, n, dt) ==
    IF n = 0 THEN 0 ELSE SumErrDt(errs, n - 1, dt) + FMul(errs[n], dt)

\* P + I + D of a controller state, clamped to [0, engine.thrust] and
\* divided by engine.thrust
Throttle(c, engine) == FDiv(MAX(0, MIN(c.P + c.I + c.D, engine.thrust)), engine.thrust)

\* the controller c after a call on the rocket s with the step dt, as the
\* contract states it
Contract(c, s, dt) ==
    [c EXCEPT !.P = FMul(c.K_p, PidError(s)),
              !.integral = @ + FMul(PidError(s), dt),
              !.I = FMul(c.K_i, c.integral + FMul(PidError(s), dt)),
              !.D = FDiv(FMul(c.K_d, PidError(s) - c.prev_err), dt),
              !.prev_err = PidError(s),
              !.errs = Append(@, PidError(s))]

\* C26: a call of pid_calculate_thrust with engine.thrust > 0 and dt > 0
\* takes err = target - velocity.z, adds err * dt to integral, takes the
\* derivative from the prev_err of the call before (0 after a reset), sets
\* prev_err to err, and returns P + I + D clamped to [0, engine.thrust]
\* over engine.thrust, a throttle in [0, 1], which the driver commands when
\* it is positive and fuel is left; after n calls since a reset integral is
\* the sum of the n errors times dt
C26_ControllerContract ==
    /\ [][(pc \in {"eval", "pid_commit"} /\ r.engine.thrust > 0 /\ CallDt > 0) =>
            (/\ pid' = Contract(pid, r, CallDt)
             /\ Throttle(pid', r.engine) \in 0..Scale
             /\ fed' = PidCommand(r, Throttle(pid', r.engine)))]_vars
    /\ [](pc \in {"eval", "pid_commit"} =>
             (/\ pid.integral = SumErrDt(pid.errs, Len(pid.errs), CallDt)
              /\ pid.prev_err = IF pid.errs = <<>> THEN 0 ELSE pid.errs[Len(pid.errs)]))

\* C26 witness: in an evaluation of the tuner, after three calls or more
\* since the reset, with all three gains at work, a non-zero integral and
\* derivative term, and a throttle strictly between 0 and 1 commanded
C26_Witness ==
    /\ pc = "eval"
    /\ Len(pid.errs) >= 3
    /\ pid.K_p # 0 /\ pid.K_i # 0 /\ pid.K_d # 0
    /\ pid.integral # 0 /\ pid.D # 0
    /\ 0 < fed.thrust_percent /\ fed.thrust_percent < Scale

\* ------------------------------------------------------------------------
\* The burn of the committed hoverslam run
\* ------------------------------------------------------------------------
\* a sequence of throttles of the form 0...0, 1...1, 0...0
SingleBurn(seq) ==
    /\ \A k \in 1..Len(seq) : seq[k] \in {0, Scale}
    /\ \A i, j, k \in 1..Len(seq) :
          (i < j /\ j < k /\ seq[i] = Scale /\ seq[j] = 0) => seq[k] = 0

\* C27: the committed hoverslam run makes a single burn: the throttles of
\* its steps are 0...0, 1...1, 0...0; the engine is switched on at the
\* first step whose rocket time before the step is >= time_to_burn, with
\* fuel left, is switched off by the exhaustion of the fuel only, and is
\* not switched on again
C27_SingleBurn ==
    /\ [](pc \in {"commit", "commit_end"} => SingleBurn(run.throttle))
    /\ [][(pc = "commit") =>
            (/\ (r.thrust_percent = 0 /\ fed'.thrust_percent # 0) =>
                    (/\ fed'.thrust_percent = Scale
                     /\ r.time >= run.time_to_burn /\ r.fuel_mass > 0
                     /\ \A k \in 1..Len(run.throttle) : run.throttle[k] = 0
                     /\ run.it > 0 => prev.time < run.time_to_burn)
             /\ (r.time >= run.time_to_burn /\ r.fuel_mass > 0) =>
                    fed'.thrust_percent = Scale
             /\ r.thrust_percent # 0 => fed'.thrust_percent = r.thrust_percent
             /\ r'.thrust_percent # fed'.thrust_percent =>
                    (r'.thrust_percent = 0 /\ r'.fuel_mass = 0))]_vars

\* C27 witness: a committed run that coasted, burnt, ran out of fuel and
\* coasted again before it ended
C27_Witness ==
    /\ pc = "commit_end"
    /\ \E i, j \in 1..Len(run.throttle) :
          /\ 1 < i /\ i < j
          /\ run.throttle[1] = 0
          /\ run.throttle[i] = Scale
          /\ run.throttle[j] = 0

\* ------------------------------------------------------------------------
\* Termination of the flights
\* ------------------------------------------------------------------------
\* C28: from an initial altitude > 0 (dt > 0, gravity > 0, finite fuel,
\* consumption > 0) every run-to-completion loop, of a probe, of the
\* committed hoverslam run, of a cost evaluation and of the committed PID
\* run, is left after finitely many steps, with the rocket at z <= 0 or
\* marked unstable at a time > 1.0
C28_LoopsExit ==
    /\ (pc \in StepPcs /\ cfg.altitude > 0) ~> (pc \in EndPcs)
    /\ []((pc \in EndPcs /\ cfg.altitude > 0) =>
             \/ r.coords.z <= 0
             \/ event = EV_UNSTABLE /\ r.velocity.z = INFINITY /\ r.time > Num(1))

\* C28 witness: a cost evaluation left its loop above the ground, marked
\* unstable after more than one second, some fuel burnt
C28_Witness ==
    /\ pc = "eval_end"
    /\ cfg.altitude > 0
    /\ event = EV_UNSTABLE
    /\ r.coords.z > 0
    /\ r.time > Num(1)
    /\ r.fuel_mass < cfg.fuel_mass

\* ------------------------------------------------------------------------
\* The limits of the configuration file reader
\* ------------------------------------------------------------------------
\* a line that starts with '[': a section header, readable or not
IsHeader(line) == line.kind \in {"section", "badsection"}

\* the number of the header line that most recently precedes line i, 0 if
\* there is none
Latest(S) == IF S = {} THEN 0 ELSE CHOOSE h \in S : \A g \in S : g <= h
LastHeader(lines, i) == Latest({h \in 1..i : IsHeader(lines[h])})

\* the numbers of the header lines a name is read from, in file order: the
\* k-th of them makes section k as long as there is room
Readable(lines) == SelectSeq([i \in DOMAIN lines |-> i], LAMBDA i : lines[i].kind = "section")

\* as LastHeader, counting only the headers that made a section
LastStored(lines, i) ==
    Latest({h \in 1..i : \E k \in 1..MIN(Len(Readable(lines)), MAX_SECTIONS) :
                             h = Readable(lines)[k]})

WithinLimits(fp) ==
    /\ Len(fp.sections) <= MAX_SECTIONS
    /\ \A k \in DOMAIN fp.sections : Len(fp.sections[k].vars) <= MAX_VARS

\* every variable of section k was read from a variable line that Owner
\* gives to the header of section k
StoredUnder(fp, lines, Owner(_, _)) ==
    \A k \in DOMAIN fp.sections :
        \A j \in DOMAIN fp.sections[k].vars :
            /\ fp.sections[k].vars[j].value \in DOMAIN lines
            /\ lines[fp.sections[k].vars[j].value].kind = "var"
            /\ lines[fp.sections[k].vars[j].value].name = fp.sections[k].vars[j].name
            /\ Owner(lines, fp.sections[k].vars[j].value) = Readable(lines)[k]

\* C29: after fparser_parse, section_count <= MAX_SECTIONS, every var_count
\* <= MAX_VARS, and every stored variable is in the section whose header
\* line most recently preceded it: none follows a header dropped at the
\* limit or a header that was not readable, none precedes the first header
C29_StoredUnderLastHeader ==
    pc # "main" =>
        /\ WithinLimits(args.fp)
        /\ StoredUnder(args.fp, cfg.file, LastHeader)

\* what does hold: the limits, and every stored variable is in the section
\* of the last header before it that made a section
C29_StoredUnderLastStored ==
    pc # "main" =>
        /\ WithinLimits(args.fp)
        /\ Len(args.fp.sections) = MIN(Len(Readable(cfg.file)), MAX_SECTIONS)
        /\ StoredUnder(args.fp, cfg.file, LastStored)

\* C29 failing input: the file holds more than MAX_SECTIONS readable
\* headers and the last section stored holds a variable that follows the
\* first header dropped
C29_StoredAfterDroppedHeader ==
    /\ pc # "main"
    /\ Len(Readable(cfg.file)) > MAX_SECTIONS
    /\ \E j \in DOMAIN args.fp.sections[MAX_SECTIONS].vars :
           args.fp.sections[MAX_SECTIONS].vars[j].value > Readable(cfg.file)[MAX_SECTIONS + 1]

\* ------------------------------------------------------------------------
\* The life of a logger
\* ------------------------------------------------------------------------
\* the call returns -1 and touches neither the file nor the object
Refused == l'.returned = 0 - 1 /\ l'.rows = l.rows /\ l'.file = l.file /\ ~l'.fault

\* the call appends one row for obj and returns a non-negative value
Appended(obj) ==
    l'.rows = Append(l.rows, obj) /\ l'.returned >= 0 /\ l'.file = l.file /\ ~l'.fault

\* the logger and the object are there and the file is open
Writable(lp, obj) == lp = "l" /\ l.file # "NULL" /\ ~IsNull(obj)

\* logger_write_rocket does as the contract says
RocketRowContract ==
    \A lp \in LoggerPointers, rr \in LoggedRockets :
        LoggerWriteRocket(lp, rr) => IF Writable(lp, rr) THEN Appended(rr) ELSE Refused

\* on a logger that is not open (never opened, or freed) every call is
\* refused and the logger stays closed
ClosedContract ==
    \A lp \in LoggerPointers :
        (l.file = "NULL" /\ (LoggerFlush(lp) \/ LoggerFree(lp))) => Refused

\* C30: on an open logger logger_write_rocket and logger_write_pid append
\* one row and return a non-negative value when the object is not null;
\* they return -1 and dereference nothing when the logger is null or not
\* open or the object is null; after logger_free every call of the four
\* returns -1 and touches no file
C30_LoggerLifecycle ==
    [][/\ RocketRowContract
       /\ ClosedContract
       /\ \A lp \in LoggerPointers, c \in LoggedPids :
              LoggerWritePid(lp, c) => IF Writable(lp, c) THEN Appended(c) ELSE Refused]_vars

\* what does hold: the contract of logger_write_rocket, of the calls on a
\* closed logger, and of logger_write_pid through a null pointer or on a
\* closed logger; on an open logger logger_write_pid refuses the controller
\* it is given
C30_ExceptWritePid ==
    [][/\ RocketRowContract
       /\ ClosedContract
       /\ \A lp \in LoggerPointers, c \in LoggedPids :
              LoggerWritePid(lp, c) =>
                  IF lp = "NULL" \/ l.file = "NULL" \/ ~IsNull(c) THEN Refused ELSE TRUE]_vars

\* C30 failing input: logger_write_pid on an open logger with a null
\* controller has dereferenced it
C30_NullPidDereferenced == l.fault /\ l.file # "NULL"

\* the logger was opened, written to and freed, and a later call was refused
C30_RefusedAfterFree == l.file = "NULL" /\ Len(l.rows) >= 2 /\ l.returned = 0 - 1

====
